---- MODULE Spec2Model ----
(***************************************************************************)
(* Model of the PSoC accelerometer logger: the 25LC256 EEPROM log store,   *)
(* the log codec, the LIS3DH history queue, the interrupt handlers and the *)
(* main loop.  Bytes are naturals 0..255, the EEPROM is 512 pages of 64    *)
(* bytes, 16-bit quantities are reduced modulo 2^16 where the C code       *)
(* truncates them.                                                         *)
(***************************************************************************)
EXTENDS Integers, Sequences, FiniteSets, TLC

(***************************************************************************)
(* Program constants (25LC256.h, LogUtils.h, InterruptRoutines.h, LIS3DH.h) *)
(***************************************************************************)
SPI_EEPROM_PAGE_SIZE == 64
SPI_EEPROM_PAGE_COUNT == 512
SPI_EEPROM_SIZE_BYTE == 32767
SPI_EEPROM_WRITE_IN_PROGRESS == 1
CTRL_REG_PSOC_STATUS == 0
CTRL_REG_LOG_PAGES_LOW == 8
CTRL_REG_LOG_PAGES_HIGH == 22
LOG_DATA_BASE_ADDR == 64
LOG_PAGES_PER_EVENT == 5
CTRL_REG_PSOC_SET_START == 1
CTRL_REG_PSOC_SET_CONFIG == 2
CTRL_REG_PSOC_SET_SEND_FLAG == 4
CTRL_REG_PSOC_SET_RESET_FLAG == 8
LOG_MESSAGE_HEADER_BYTE == 4
LOG_MESSAGE_DATA_BYTE == 60
LOG_MESSAGE_TOT_BYTE == 64
LOG_TICK_PER_SECOND == 1000
STOP_MODE == 0
START_MODE == 1
CONFIG_MODE == 2
UART_RX_OPERATION_ACK == 75
UART_RX_RESET_MEMORY == 82
UART_RX_NUMBER_OF_LOGS == 78
UART_RX_READ_CTRL_REG == 67
UART_RX_SEND_LOG_ID == 76
LIS3DH_LEVELS_IN_FIFO == 32
LIS3DH_BYTES_IN_FIFO == 192
LIS3DH_BYTES_IN_FIFO_HIGH_REG == 96
LIS3DH_FIFO_STORED == 6
LIS3DH_DOWN_SAMPLE == 2
LIS3DH_BYTES_IN_FIFO_DOWNSAMPLED == 48
LIS3DH_BYTES_IN_LOG_BUFFER == 288
POT_MID_RANGE == 127
POT_DEAD_BAND == 63
\* The invalid address EEPROM_findLogID returns when no page matches (0xFFFF).
LOG_NOT_FOUND == 65535
\* uint16_t and the 15 address bits the 32 KiB device decodes.
UINT16_MOD == 65536
EEPROM_ADDR_MOD == 32768

(***************************************************************************)
(* Bounds of the model.                                                    *)
(***************************************************************************)
\* Button interrupts (double clicks and long presses) per run.
MaxButtons == 1
\* FIFO bursts drained by the main loop per run.
MaxBursts == 1
\* Over-threshold events drained by the main loop per run of Spec.
MaxEvents == 1
\* RESET commands per run.
MaxResets == 1
\* Distinct raw FIFO bursts the sensor can deliver.
NumBurstKinds == 1
\* Over-threshold events drained per run of SpecFill (the store is filled
\* past the point where the page counter needs its high byte).
FillEvents == 53
\* Bursts delivered before the first event of SpecFill.
FillBursts == 1
\* Logs of SpecFill that main() appends with no handler in between.
PriorLogs == 50
\* Ticks between two logs of the long session, and its interrupt register.
FillTimerStep == 2000
FillIntReg == 106

\* The history queue on its own: pushes of one behaviour and kinds of burst.
QueuePushes == 6
QueueBursts == 2

\* The log record on its own: pushes that fill the payload.
CodecPushes == 1

\* The writes of main() with their waits: over-threshold events and bursts.
WriteEvents == 3
WriteBursts == 1

\* The mode controller: button events, erase commands, power cycles and
\* over-threshold events of one behaviour.
ModeButtons == 3
ModeResets == 1
ModeCycles == 1
ModeEvents == 1

(***************************************************************************)
(* Bytes and bit masks.                                                    *)
(***************************************************************************)
Byte == 0..255

\* x & mask for a single-bit mask.
BitAnd(x, mask) == IF (x \div mask) % 2 = 1 THEN mask ELSE 0
\* x |= mask for a single-bit mask.
BitSet(x, mask) == IF BitAnd(x, mask) = 0 THEN x + mask ELSE x
\* x &= ~mask for a single-bit mask.
BitClear(x, mask) == IF BitAnd(x, mask) = 0 THEN x ELSE x - mask


LIS3DH_CTRL_REG1_STOP_XYZ == 104
LIS3DH_CTRL_REG1_START_XYZ == 111
LIS3DH_CTRL_REG3_I1_IA1_OVERRUN == 66
LIS3DH_CTRL_REG3_NULL == 0
LIS3DH_CTRL_REG5_FIFO_ENABLE == 64
LIS3DH_CTRL_REG5_FIFO_DISABLE == 0
LIS3DH_FIFO_CTRL_REG_BYPASS_MODE == 0
LIS3DH_FIFO_CTRL_REG_FIFO_MODE == 64
LIS3DH_ITN1_CFG_DISABLE_EVENTS == 0
LIS3DH_INT1_CFG_XYZ_HIGH_EVENTS == 42

(***************************************************************************)
(* 25LC256.c: byte and page access.  A memory m maps the page index        *)
(* 0..511 to the 64 bytes of the page; a page whose 64 bytes are all equal *)
(* to b is kept as the one-element sequence <<b>>, every other page as its *)
(* 64 bytes.  The device decodes 15 address bits; a sequential read runs   *)
(* on through the array and rolls over from the last byte to address 0; a  *)
(* page write stays inside the page it starts in and wraps to the start of *)
(* that page.                                                              *)
(***************************************************************************)
\* A sequence given by a rule, written out element by element.
AsBytes(f) == SubSeq(f, 1, Len(f))

\* The 64 bytes of a stored page.
PageBytes(pg) ==
    IF Len(pg) = 1 THEN [k \in 1..SPI_EEPROM_PAGE_SIZE |-> pg[1]] ELSE pg

\* The stored form of 64 bytes.
PackPage(bytes) ==
    IF \A k \in 2..SPI_EEPROM_PAGE_SIZE : bytes[k] = bytes[1] THEN <<bytes[1]>> ELSE AsBytes(bytes)

Cell(m, addr) ==
    LET pg == m[(addr % EEPROM_ADDR_MOD) \div SPI_EEPROM_PAGE_SIZE]
    IN IF Len(pg) = 1 THEN pg[1]
       ELSE pg[((addr % EEPROM_ADDR_MOD) % SPI_EEPROM_PAGE_SIZE) + 1]

EEPROM_readByte(m, addr) == Cell(m, addr)

EEPROM_readPage(m, addr, nBytes) == AsBytes([k \in 1..nBytes |-> Cell(m, addr + k - 1)])

EEPROM_writePage(m, addr, data) ==
    LET a == addr % EEPROM_ADDR_MOD
        p == a \div SPI_EEPROM_PAGE_SIZE
        o == a % SPI_EEPROM_PAGE_SIZE
        old == PageBytes(m[p])
        \* index in data of the byte that lands on offset k-1 of the page
        j(k) == ((k - 1 - o) % SPI_EEPROM_PAGE_SIZE) + 1
    IN [m EXCEPT ![p] = PackPage([k \in 1..SPI_EEPROM_PAGE_SIZE |->
                                    IF j(k) <= Len(data) THEN data[j(k)] ELSE old[k]])]

EEPROM_writeByte(m, addr, dataByte) == EEPROM_writePage(m, addr, <<dataByte>>)

(***************************************************************************)
(* 25LC256.c: the control byte (start/stop, config, send and reset flags). *)
(***************************************************************************)
EEPROM_saveResetFlag(m, flag) ==
    LET ctrl_reg == EEPROM_readByte(m, CTRL_REG_PSOC_STATUS)
        new_reg == IF flag = 1 THEN BitSet(ctrl_reg, CTRL_REG_PSOC_SET_RESET_FLAG)
                   ELSE BitClear(ctrl_reg, CTRL_REG_PSOC_SET_RESET_FLAG)
    IN EEPROM_writeByte(m, CTRL_REG_PSOC_STATUS, new_reg)

\* A flag writer from the point where its local ctrl_reg holds the byte it
\* read, on the store m of that moment: set or clear the flag's bit, write
\* the byte back, then clear the reset bit if the local byte has it set.
FlagWriteBack(m, mask, flag, ctrl_reg) ==
    LET new_reg == IF flag = 1 THEN BitSet(ctrl_reg, mask) ELSE BitClear(ctrl_reg, mask)
        m1 == EEPROM_writeByte(m, CTRL_REG_PSOC_STATUS, new_reg)
    IN IF BitAnd(new_reg, CTRL_REG_PSOC_SET_RESET_FLAG) # 0
       THEN EEPROM_saveResetFlag(m1, 0)
       ELSE m1

\* A flag writer that leaves the reset bit as it finds it.
SaveFlagBitKeepMarker(m, mask, flag) ==
    LET ctrl_reg == EEPROM_readByte(m, CTRL_REG_PSOC_STATUS)
    IN EEPROM_writeByte(m, CTRL_REG_PSOC_STATUS,
                        IF flag = 1 THEN BitSet(ctrl_reg, mask) ELSE BitClear(ctrl_reg, mask))

\* A flag writer that writes the flag's bit alone, without reading the byte.
SaveFlagBitBlind(m, mask, flag) ==
    EEPROM_writeByte(m, CTRL_REG_PSOC_STATUS, IF flag = 1 THEN mask ELSE 0)

\* The body shared by the three flag writers: read the byte, set or clear
\* the flag's bit, write the byte back, then clear the reset bit if it is set.
SaveFlagBit(m, mask, flag) ==
    FlagWriteBack(m, mask, flag, EEPROM_readByte(m, CTRL_REG_PSOC_STATUS))

\* The start/stop writer with the mask of the config flag.
SaveStartStopAsConfig(m, state) == SaveFlagBit(m, CTRL_REG_PSOC_SET_CONFIG, state)

EEPROM_saveStartStopState(m, state) == SaveFlagBit(m, CTRL_REG_PSOC_SET_START, state)
EEPROM_saveConfigFlag(m, flag) == SaveFlagBit(m, CTRL_REG_PSOC_SET_CONFIG, flag)
EEPROM_saveSendFlag(m, flag) == SaveFlagBit(m, CTRL_REG_PSOC_SET_SEND_FLAG, flag)

RetrieveFlagBit(m, mask) ==
    IF BitAnd(EEPROM_readByte(m, CTRL_REG_PSOC_STATUS), mask) # 0 THEN 1 ELSE 0

EEPROM_retrieveStartStopState(m) == RetrieveFlagBit(m, CTRL_REG_PSOC_SET_START)
EEPROM_retrieveConfigFlag(m) == RetrieveFlagBit(m, CTRL_REG_PSOC_SET_CONFIG)
EEPROM_retrieveSendFlag(m) == RetrieveFlagBit(m, CTRL_REG_PSOC_SET_SEND_FLAG)
EEPROM_retrieveResetFlag(m) == RetrieveFlagBit(m, CTRL_REG_PSOC_SET_RESET_FLAG)

(***************************************************************************)
(* 25LC256.c: the page counter.  The high byte is read from                *)
(* CTRL_REG_LOG_PAGES_HIGH; the two bytes are written as one page write    *)
(* starting at CTRL_REG_LOG_PAGES_LOW.                                     *)
(***************************************************************************)
EEPROM_retrieveLogPages(m) ==
    EEPROM_readByte(m, CTRL_REG_LOG_PAGES_HIGH) * 256
      + EEPROM_readByte(m, CTRL_REG_LOG_PAGES_LOW)

EEPROM_retrieveLogCount(m) ==
    (EEPROM_retrieveLogPages(m) \div LOG_PAGES_PER_EVENT) % 256

EEPROM_incrementLogCounter(m) ==
    LET reg_count == EEPROM_retrieveLogPages(m)
    IN IF reg_count < SPI_EEPROM_PAGE_COUNT
       THEN EEPROM_writePage(m, CTRL_REG_LOG_PAGES_LOW,
                             <<(reg_count + 1) % 256, ((reg_count + 1) \div 256) % 256>>)
       ELSE m

(***************************************************************************)
(* LogUtils.c: the log record and its 64-byte form.                        *)
(***************************************************************************)
LOG_createMessage(logID, intReg, time, data) ==
    [logID |-> logID, intReg |-> intReg, timestamp |-> time,
     data |-> SubSeq(data, 1, LOG_MESSAGE_DATA_BYTE)]

\* A serialisation that puts the high byte of the timestamp first.
UnpackBigEndian(message) ==
    <<message.logID, message.intReg,
      (message.timestamp \div 256) % 256, message.timestamp % 256>> \o message.data

LOG_unpackMessage(message) ==
    <<message.logID, message.intReg,
      message.timestamp % 256, (message.timestamp \div 256) % 256>> \o message.data

\* A parser that takes byte 2 as the high byte of the timestamp.
PackBigEndian(buffer) ==
    [logID |-> buffer[1], intReg |-> buffer[2],
     timestamp |-> buffer[3] * 256 + buffer[4],
     data |-> SubSeq(buffer, LOG_MESSAGE_HEADER_BYTE + 1, LOG_MESSAGE_TOT_BYTE)]

LOG_packMessage(buffer) ==
    [logID |-> buffer[1], intReg |-> buffer[2],
     timestamp |-> buffer[4] * 256 + buffer[3],
     data |-> SubSeq(buffer, LOG_MESSAGE_HEADER_BYTE + 1, LOG_MESSAGE_TOT_BYTE)]

\* Seconds since boot, cut to 16 bits.  current_time is the value of
\* LOG_TIMER_OVERFLOW - MAIN_TIMER_ReadCounter(): the ticks the down counter,
\* started at LOG_TIMER_OVERFLOW, has counted since boot.
LOG_getTimestamp(current_time) ==
    (current_time \div LOG_TICK_PER_SECOND) % UINT16_MOD

(***************************************************************************)
(* 25LC256.c: the log store.                                               *)
(***************************************************************************)
\* The address EEPROM_storeLogData computes for the next page (uint16_t).
NextPageAddr(m) ==
    (LOG_DATA_BASE_ADDR + EEPROM_retrieveLogPages(m) * SPI_EEPROM_PAGE_SIZE) % UINT16_MOD

\* Whether EEPROM_storeLogData takes the address as valid.
PageAddrValid(page_addr) == page_addr <= SPI_EEPROM_SIZE_BYTE - SPI_EEPROM_PAGE_SIZE

EEPROM_storeLogData(m, data) ==
    IF PageAddrValid(NextPageAddr(m))
    THEN EEPROM_writePage(m, NextPageAddr(m), data)
    ELSE m

EEPROM_storeLogMessage(m, message) ==
    EEPROM_incrementLogCounter(EEPROM_storeLogData(m, LOG_unpackMessage(message)))

\* The header addresses the scan visits: LOG_DATA_BASE_ADDR, then steps of one
\* page while the address stays below SPI_EEPROM_SIZE_BYTE.
ScanAddrs ==
    {LOG_DATA_BASE_ADDR + k * SPI_EEPROM_PAGE_SIZE : k \in 0..(SPI_EEPROM_PAGE_COUNT - 1)}
      \cap 0..(SPI_EEPROM_SIZE_BYTE - 1)

\* The scan stops at the first visited address whose byte equals logID.
EEPROM_findLogID(m, logID) ==
    IF \A a \in ScanAddrs : EEPROM_readByte(m, a) # logID THEN LOG_NOT_FOUND
    ELSE CHOOSE a \in ScanAddrs :
            /\ EEPROM_readByte(m, a) = logID
            /\ \A b \in ScanAddrs : b < a => EEPROM_readByte(m, b) # logID

\* The read EEPROM_retrieveLogData makes once the scan has returned page_addr:
\* the sum is a uint16_t.
LogPageAt(m, page_addr, pageIndex) ==
    EEPROM_readPage(m, (page_addr + pageIndex * SPI_EEPROM_PAGE_SIZE) % UINT16_MOD,
                    SPI_EEPROM_PAGE_SIZE)

EEPROM_retrieveLogData(m, logID, pageIndex) ==
    LogPageAt(m, EEPROM_findLogID(m, logID), pageIndex)

EEPROM_retrieveLogMessage(m, logID, pageIndex) ==
    LOG_packMessage(EEPROM_retrieveLogData(m, logID, pageIndex))

\* The loop runs for i = 1 .. SPI_EEPROM_PAGE_COUNT - 1 and starts at address 0:
\* it zeroes pages 0 .. SPI_EEPROM_PAGE_COUNT - 2.
ResetPages == 0..(SPI_EEPROM_PAGE_COUNT - 2)

EEPROM_resetMemory(m) ==
    LET resetBuffer == [k \in 1..SPI_EEPROM_PAGE_SIZE |-> 0] IN
    EEPROM_saveResetFlag([p \in DOMAIN m |-> IF p \in ResetPages THEN PackPage(resetBuffer) ELSE m[p]], 1)

(***************************************************************************)
(* LIS3DH.c: the history queue and the log payload.                        *)
(***************************************************************************)
\* The sensor's registers as IMU_Setup followed by IMU_Stop leave them.
IMU_StopRegs(r) ==
    [r EXCEPT !.ctrl1 = LIS3DH_CTRL_REG1_STOP_XYZ,
              !.ctrl3 = LIS3DH_CTRL_REG3_NULL,
              !.ctrl5 = LIS3DH_CTRL_REG5_FIFO_DISABLE,
              !.fifo_ctrl = LIS3DH_FIFO_CTRL_REG_BYPASS_MODE,
              !.int1_cfg = LIS3DH_ITN1_CFG_DISABLE_EVENTS]

IMU_StartRegs(r) ==
    [r EXCEPT !.ctrl1 = LIS3DH_CTRL_REG1_START_XYZ,
              !.ctrl3 = LIS3DH_CTRL_REG3_I1_IA1_OVERRUN,
              !.ctrl5 = LIS3DH_CTRL_REG5_FIFO_ENABLE,
              !.fifo_ctrl = LIS3DH_FIFO_CTRL_REG_FIFO_MODE,
              !.int1_cfg = LIS3DH_INT1_CFG_XYZ_HIGH_EVENTS]

IMU_InitRegs ==
    IMU_StopRegs([ctrl1 |-> LIS3DH_CTRL_REG1_STOP_XYZ, ctrl3 |-> LIS3DH_CTRL_REG3_NULL,
                  ctrl5 |-> LIS3DH_CTRL_REG5_FIFO_ENABLE,
                  fifo_ctrl |-> LIS3DH_FIFO_CTRL_REG_BYPASS_MODE,
                  int1_cfg |-> LIS3DH_ITN1_CFG_DISABLE_EVENTS])

\* Bypass mode, then FIFO mode again.
IMU_ResetFIFORegs(r) == [r EXCEPT !.fifo_ctrl = LIS3DH_FIFO_CTRL_REG_FIFO_MODE]

\* Sampling and the INT1 interrupts are on.
IMU_Acquiring(r) ==
    r.ctrl1 = LIS3DH_CTRL_REG1_START_XYZ /\ r.ctrl3 = LIS3DH_CTRL_REG3_I1_IA1_OVERRUN

\* high_reg_data[i] = buffer[i*2 + 1]
HighRegData(buffer) == [k \in 1..LIS3DH_BYTES_IN_FIFO_HIGH_REG |-> buffer[2 * k]]

\* down_sampled_data[i*3 + c] = high_reg_data[(i*3)*2 + c]
\* A reduction that keeps the first 16 levels instead of every second one.
KeepFirstLevels(buffer) ==
    [k \in 1..LIS3DH_BYTES_IN_FIFO_DOWNSAMPLED |-> HighRegData(buffer)[k]]

DownSampledData(buffer) ==
    [k \in 1..LIS3DH_BYTES_IN_FIFO_DOWNSAMPLED |->
        HighRegData(buffer)[6 * ((k - 1) \div 3) + ((k - 1) % 3) + 1]]

\* memcpy(&IMU_log_queue[48], IMU_log_queue, 240): source and destination
\* overlap, so the C library decides the outcome.  "as_memmove" copies as if
\* through a temporary; "forward" copies byte by byte from the low address up
\* and re-reads bytes it has already overwritten.
ShiftQueue(queue, overlap) ==
    [k \in 1..LIS3DH_BYTES_IN_LOG_BUFFER |->
        IF k <= LIS3DH_BYTES_IN_FIFO_DOWNSAMPLED THEN queue[k]
        ELSE IF overlap = "as_memmove" THEN queue[k - LIS3DH_BYTES_IN_FIFO_DOWNSAMPLED]
        ELSE queue[((k - 1) % LIS3DH_BYTES_IN_FIFO_DOWNSAMPLED) + 1]]

IMU_StoreFIFO(queue, buffer, overlap) ==
    AsBytes([k \in 1..LIS3DH_BYTES_IN_LOG_BUFFER |->
               IF k <= LIS3DH_BYTES_IN_FIFO_DOWNSAMPLED THEN DownSampledData(buffer)[k]
               ELSE ShiftQueue(queue, overlap)[k]])

\* A slicing that walks the queue from its first byte: page 0 first.
PayloadFromFront(queue, index) ==
    AsBytes([k \in 1..LOG_MESSAGE_DATA_BYTE |->
               IF index * LOG_MESSAGE_DATA_BYTE + k <= LIS3DH_BYTES_IN_LOG_BUFFER
               THEN queue[index * LOG_MESSAGE_DATA_BYTE + k] ELSE 0])

\* A last page that copies 60 bytes from the front of the queue, no padding.
PayloadNoPadding(queue, index) ==
    AsBytes(IF index + 1 = 5
            THEN [k \in 1..LOG_MESSAGE_DATA_BYTE |-> queue[k]]
            ELSE [k \in 1..LOG_MESSAGE_DATA_BYTE |-> queue[288 - (index + 1) * 60 + k]])

IMU_getPayload(queue, index) ==
    AsBytes(IF index + 1 = 5
            THEN [k \in 1..LOG_MESSAGE_DATA_BYTE |-> IF k <= 48 THEN queue[k] ELSE 0]
            ELSE [k \in 1..LOG_MESSAGE_DATA_BYTE |-> queue[288 - (index + 1) * 60 + k]])

\* 32 frames of 0xA0, three high bytes, 0xC0.
IMU_DataSend(buffer) ==
    AsBytes([k \in 1..(5 * LIS3DH_LEVELS_IN_FIFO) |->
               IF (k - 1) % 5 = 0 THEN 160
               ELSE IF (k - 1) % 5 = 4 THEN 192
               ELSE HighRegData(buffer)[3 * ((k - 1) \div 5) + ((k - 1) % 5)]])

(***************************************************************************)
(* Notifications.c: the knob.                                              *)
(***************************************************************************)
POT_Read_Value(oldFlag, pot_val) ==
    IF pot_val < POT_MID_RANGE - POT_DEAD_BAND THEN 0
    ELSE IF pot_val > POT_MID_RANGE + POT_DEAD_BAND THEN 1
    ELSE oldFlag

(***************************************************************************)
(* Inputs from the environment.                                            *)
(***************************************************************************)
\* Burst b of the sensor: 32 levels of 6 bytes.
RawBurst(b) == AsBytes([k \in 1..LIS3DH_BYTES_IN_FIFO |-> (b * 67 + k) % 256])
\* Contents of LIS3DH_INT1_SRC when the main loop reads it.
IntRegs == {106, 84}
\* Ticks since boot at which the main loop reads the timer: 1.5 s and 300 s.
TimerReadings == {1500, 300000}
\* Knob positions, one in each band of POT_Read_Value.
KnobValues == {10, 127, 240}
\* Identifiers asked for by the remote READ_LOG command.
QueryIds == {0, 99}
\* The byte every cell of the chip holds before its first erase.
ChipFills == {0, 255}
\* What the C library's memcpy does with overlapping buffers.
OverlapKinds == {"as_memmove", "forward"}

(***************************************************************************)
(* State.                                                                  *)
(***************************************************************************)
VARIABLES
    pc,                      \* position of main()
    button_state,            \* InterruptRoutines.h
    send_flag,
    IMU_data_ready_flag,
    IMU_over_threshold_flag,
    IMU_DataBuffer,          \* LIS3DH.h
    IMU_log_queue,
    log_id, int_reg, timestamp, page_i,   \* locals of the over-threshold block
    eeprom,                  \* the 25LC256
    eeprom_status,           \* its status register
    imu,                     \* the LIS3DH registers the firmware writes
    MAIN_TIMER,              \* ticks since boot at the last reading of the timer
    uart_rx,                 \* bytes of the command the latest step took from the UART
    uart_tx,                 \* bytes put on the UART by the latest step
    n,                       \* how many inputs of each kind were taken
    g,                       \* history of the appends since the last erase
    past                     \* what the buttons and the power supply did last

vars == <<pc, button_state, send_flag, IMU_data_ready_flag, IMU_over_threshold_flag,
          IMU_DataBuffer, IMU_log_queue, log_id, int_reg, timestamp, page_i,
          eeprom, eeprom_status, imu, MAIN_TIMER, uart_rx, uart_tx, n, g, past>>

ram == <<button_state, send_flag, IMU_data_ready_flag, IMU_over_threshold_flag,
         IMU_DataBuffer, IMU_log_queue, log_id, int_reg, timestamp, page_i>>

\* main() is between reading the identifier of a log and the end of the
\* loop that writes its pages.
Appending == pc \in {"spin", "page", "count"}

\* History of the appends since the last erase.  logs lists the logs in the
\* order main() began them, each with its identifier, the page counter read
\* when it began, the addresses and the bytes of the pages written for it, and
\* whether an erase cut it; addrs lists the addresses of all pages written.
NoHistory == [logs |-> <<>>, addrs |-> <<>>]

\* The history once main() has read id as the identifier of a new log.
HistoryBegin(h, m, id) ==
    [h EXCEPT !.logs = Append(@, [id |-> id, start |-> EEPROM_retrieveLogPages(m),
                                  addrs |-> <<>>, data |-> <<>>, cut |-> FALSE])]

\* The history once EEPROM_storeLogData has run on memory m with the 64 bytes
\* page: a page is written when the address is valid.
HistoryPage(h, m, page) ==
    IF PageAddrValid(NextPageAddr(m))
    THEN [h EXCEPT !.addrs = Append(@, NextPageAddr(m)),
                   !.logs[Len(h.logs)].addrs = Append(@, NextPageAddr(m)),
                   !.logs[Len(h.logs)].data = Append(@, page)]
    ELSE h

\* The history an erase leaves: of a log main() is appending, the pages still
\* to come.
ErasedHistory ==
    IF Appending
    THEN [logs |-> <<[id |-> log_id, start |-> 0, addrs |-> <<>>, data |-> <<>>,
                      cut |-> TRUE]>>,
          addrs |-> <<>>]
    ELSE NoHistory

\* What the buttons and the power supply did last: the number of power
\* cycles, the start/stop bit the store held at the latest power-on, the
\* latest button event with the mode its handler found, and the mode the
\* latest entry into CONFIG_MODE left; for a function called on its own, its
\* name, its argument and the value it found or returned; the numbers of
\* the bursts pushed into the history queue since power-on, newest first; and
\* the kinds of sensor event signalled while main() was draining an event of
\* the same kind, for which main() has begun no drain since.
NoPast == [cycles |-> 0, start_bit |-> 0, press |-> "none", from |-> STOP_MODE,
           config_from |-> STOP_MODE, call |-> <<>>, pushed |-> <<>>, late |-> {}]

\* main() is inside the FIFO overrun block, past the push, and inside the
\* over-threshold block, past the reading of the identifier.
BurstDrainPcs == {"ready_end"}
ThreshDrainPcs == {"spin", "page", "page_wait", "count", "count_wait", "next_page",
                   "thresh_end"}

\* The RAM and the sensor at the end of the setup, lines 72-104 of main():
\* the globals hold their start-up values, IMU_Init has run, the timer runs,
\* and the interrupt handlers are enabled.
SetupDone ==
    /\ pc = "setup"
    /\ button_state = STOP_MODE
    /\ send_flag = 0
    /\ IMU_data_ready_flag = 0
    /\ IMU_over_threshold_flag = 0
    /\ IMU_DataBuffer = AsBytes([k \in 1..LIS3DH_BYTES_IN_FIFO |-> 0])
    /\ IMU_log_queue = AsBytes([k \in 1..LIS3DH_BYTES_IN_LOG_BUFFER |-> 0])
    /\ log_id = 0 /\ int_reg = 0 /\ timestamp = 0 /\ page_i = 0
    /\ eeprom_status = 0
    /\ imu = IMU_InitRegs
    /\ MAIN_TIMER = 0
    /\ uart_rx = <<>>
    /\ uart_tx = <<>>

\* Power-on of a chip that was erased by EEPROM_resetMemory, with the
\* interrupt handlers just enabled (main, up to the end of the setup).
InitWith(fills) ==
    /\ SetupDone
    /\ \E fill \in fills :
          eeprom = EEPROM_resetMemory([p \in 0..(SPI_EEPROM_PAGE_COUNT - 1) |-> <<fill>>])
    /\ n = [buttons |-> 0, bursts |-> 0, events |-> 0, resets |-> 0]
    /\ g = NoHistory
    /\ past = NoPast

Init == InitWith(ChipFills)

(***************************************************************************)
(* InterruptRoutines.c: the handlers.  A handler runs to completion         *)
(* between two steps of main().                                            *)
(***************************************************************************)
Quiet == uart_rx' = <<>> /\ uart_tx' = <<>>

\* Long press.
CUSTOM_ISR_CONFIG ==
    /\ n' = [n EXCEPT !.buttons = @ + 1]
    /\ IF button_state # CONFIG_MODE
       THEN /\ imu' = IF button_state = START_MODE THEN IMU_StopRegs(imu) ELSE imu
            /\ button_state' = CONFIG_MODE
            /\ eeprom' = EEPROM_saveConfigFlag(eeprom, 1)
       ELSE /\ button_state' = EEPROM_retrieveStartStopState(eeprom)
            /\ imu' = IF button_state' = START_MODE THEN IMU_StartRegs(imu) ELSE imu
            /\ eeprom' = EEPROM_saveSendFlag(EEPROM_saveConfigFlag(eeprom, 0), send_flag)
    /\ past' = [past EXCEPT !.press = "long", !.from = button_state,
                            !.config_from = IF button_state # CONFIG_MODE
                                            THEN button_state ELSE @]
    /\ Quiet
    /\ UNCHANGED <<eeprom_status, pc, send_flag, IMU_data_ready_flag, IMU_over_threshold_flag,
                   IMU_DataBuffer, IMU_log_queue, log_id, int_reg, timestamp, page_i,
                   MAIN_TIMER, g>>

\* The double click with a plain else in place of the test for STOP_MODE.
StartFromAnyMode ==
    /\ n' = [n EXCEPT !.buttons = @ + 1]
    /\ IF button_state = START_MODE
       THEN /\ imu' = IMU_StopRegs(imu)
            /\ eeprom' = EEPROM_saveStartStopState(eeprom, 0)
            /\ button_state' = STOP_MODE
       ELSE /\ imu' = IMU_StartRegs(imu)
            /\ eeprom' = EEPROM_saveStartStopState(eeprom, 1)
            /\ button_state' = START_MODE
    /\ past' = [past EXCEPT !.press = "double", !.from = button_state]
    /\ Quiet
    /\ UNCHANGED <<eeprom_status, pc, send_flag, IMU_data_ready_flag, IMU_over_threshold_flag,
                   IMU_DataBuffer, IMU_log_queue, log_id, int_reg, timestamp, page_i,
                   MAIN_TIMER, g>>

\* Double click.
CUSTOM_ISR_START ==
    /\ n' = [n EXCEPT !.buttons = @ + 1]
    /\ IF button_state = START_MODE
       THEN /\ imu' = IMU_StopRegs(imu)
            /\ eeprom' = EEPROM_saveStartStopState(eeprom, 0)
            /\ button_state' = STOP_MODE
       ELSE IF button_state = STOP_MODE
       THEN /\ imu' = IMU_StartRegs(imu)
            /\ eeprom' = EEPROM_saveStartStopState(eeprom, 1)
            /\ button_state' = START_MODE
       ELSE UNCHANGED <<imu, eeprom, button_state>>
    /\ past' = [past EXCEPT !.press = "double", !.from = button_state]
    /\ Quiet
    /\ UNCHANGED <<eeprom_status, pc, send_flag, IMU_data_ready_flag, IMU_over_threshold_flag,
                   IMU_DataBuffer, IMU_log_queue, log_id, int_reg, timestamp, page_i,
                   MAIN_TIMER, g>>

\* The sensor's interrupt; ovr and ia are the bits the handler reads in
\* FIFO_SRC_REG and INT1_SRC.
CUSTOM_ISR_IMU(ovr, ia) ==
    /\ IMU_Acquiring(imu)
    /\ ovr \/ ia
    /\ IMU_data_ready_flag' = IF ovr THEN 1 ELSE IMU_data_ready_flag
    /\ IMU_over_threshold_flag' = IF ia THEN 1 ELSE IMU_over_threshold_flag
    /\ n' = [n EXCEPT !.bursts = IF ovr THEN @ + 1 ELSE @,
                      !.events = IF ia THEN @ + 1 ELSE @]
    /\ past' = [past EXCEPT !.late =
                  @ \cup (IF ovr /\ pc \in BurstDrainPcs THEN {"burst"} ELSE {})
                    \cup (IF ia /\ pc \in ThreshDrainPcs THEN {"thresh"} ELSE {})]
    /\ Quiet
    /\ UNCHANGED <<eeprom_status, pc, button_state, send_flag, IMU_DataBuffer, IMU_log_queue,
                   log_id, int_reg, timestamp, page_i, eeprom, imu, MAIN_TIMER, g>>

\* The five records the handler puts on the UART for READ_LOG, each through
\* EEPROM_retrieveLogMessage and LOG_sendData.  Every one of the five calls
\* scans the same memory for the same identifier, so the scan is written once.
SendLogReply(m, id) ==
    LET page_addr == EEPROM_findLogID(m, id)
        Record(i) == LOG_unpackMessage(LOG_packMessage(LogPageAt(m, page_addr, i)))
    IN Record(0) \o Record(1) \o Record(2) \o Record(3) \o Record(4)

\* What the handler sends for a command that reads store m.
RxReply(m, op_code, id) ==
    IF op_code = UART_RX_NUMBER_OF_LOGS
    THEN <<EEPROM_retrieveLogCount(m)>>
    ELSE IF op_code = UART_RX_READ_CTRL_REG
    THEN <<EEPROM_readByte(m, CTRL_REG_PSOC_STATUS)>>
    ELSE IF op_code = UART_RX_SEND_LOG_ID
    THEN SendLogReply(m, id)
    ELSE <<>>

\* A handler whose READ_CTRL_REG acknowledges the reset marker: it clears the
\* marker once the control byte has been sent.
RxReadAndClear(op_code, id) ==
    /\ uart_rx' = IF op_code = UART_RX_SEND_LOG_ID THEN <<op_code, id>> ELSE <<op_code>>
    /\ IF op_code = UART_RX_RESET_MEMORY
       THEN /\ n' = [n EXCEPT !.resets = @ + 1]
            /\ eeprom' = EEPROM_resetMemory(eeprom)
            /\ uart_tx' = <<UART_RX_OPERATION_ACK>>
            /\ g' = ErasedHistory
       ELSE /\ uart_tx' = RxReply(eeprom, op_code, id)
            /\ eeprom' = IF op_code = UART_RX_READ_CTRL_REG
                          THEN EEPROM_saveResetFlag(eeprom, 0) ELSE eeprom
            /\ UNCHANGED <<n, g>>
    /\ UNCHANGED <<eeprom_status, pc, ram, imu, MAIN_TIMER, past>>

\* A remote command: op_code, and for READ_LOG the identifier that follows.
CUSTOM_ISR_RX(op_code, id) ==
    /\ uart_rx' = IF op_code = UART_RX_SEND_LOG_ID THEN <<op_code, id>> ELSE <<op_code>>
    /\ IF op_code = UART_RX_RESET_MEMORY
       THEN /\ n' = [n EXCEPT !.resets = @ + 1]
            /\ eeprom' = EEPROM_resetMemory(eeprom)
            /\ uart_tx' = <<UART_RX_OPERATION_ACK>>
            /\ g' = ErasedHistory
       ELSE /\ uart_tx' = RxReply(eeprom, op_code, id)
            /\ UNCHANGED <<eeprom, n, g>>
    /\ UNCHANGED <<eeprom_status, pc, ram, imu, MAIN_TIMER, past>>

(***************************************************************************)
(* main.c                                                                  *)
(***************************************************************************)
\* Line 107: the mode variable.
MainInitState ==
    /\ pc = "setup"
    /\ pc' = "init"
    /\ button_state' = STOP_MODE
    /\ Quiet
    /\ UNCHANGED <<eeprom_status, send_flag, IMU_data_ready_flag, IMU_over_threshold_flag,
                   IMU_DataBuffer, IMU_log_queue, log_id, int_reg, timestamp, page_i,
                   eeprom, imu, MAIN_TIMER, n, g, past>>

\* Lines 108-115: the persisted start/stop bit, the send flag and the sensor's
\* flags.
MainInit ==
    /\ pc = "init"
    /\ pc' = "switch"
    /\ eeprom' = EEPROM_saveStartStopState(eeprom, 0)
    /\ send_flag' = 0
    /\ IMU_data_ready_flag' = 0
    /\ IMU_over_threshold_flag' = 0
    /\ Quiet
    /\ UNCHANGED <<eeprom_status, button_state, IMU_DataBuffer, IMU_log_queue, log_id, int_reg,
                   timestamp, page_i, imu, MAIN_TIMER, n, g, past>>

\* The board state handler; in CONFIG_MODE the knob sets send_flag.
MainSwitch(pot_val) ==
    /\ pc = "switch"
    /\ pc' = "ready"
    /\ send_flag' = IF button_state = CONFIG_MODE
                    THEN POT_Read_Value(send_flag, pot_val) ELSE send_flag
    /\ Quiet
    /\ UNCHANGED <<eeprom_status, button_state, IMU_data_ready_flag, IMU_over_threshold_flag,
                   IMU_DataBuffer, IMU_log_queue, log_id, int_reg, timestamp, page_i,
                   eeprom, imu, MAIN_TIMER, n, g, past>>

\* FIFO overrun block, up to the verbose send; b is the burst the FIFO holds,
\* overlap what memcpy does in IMU_StoreFIFO.
MainDataReady(b, overlap) ==
    /\ pc = "ready"
    /\ IF IMU_data_ready_flag = 1
       THEN /\ IMU_DataBuffer' = RawBurst(b)
            /\ IMU_log_queue' = IMU_StoreFIFO(IMU_log_queue, RawBurst(b), overlap)
            /\ past' = [past EXCEPT !.pushed = <<b>> \o @, !.late = @ \ {"burst"}]
            /\ uart_rx' = <<>>
            /\ uart_tx' = IF EEPROM_retrieveSendFlag(eeprom) = 1
                          THEN IMU_DataSend(RawBurst(b)) ELSE <<>>
            /\ pc' = "ready_end"
       ELSE /\ pc' = "thresh"
            /\ Quiet
            /\ UNCHANGED <<IMU_DataBuffer, IMU_log_queue, past>>
    /\ UNCHANGED <<eeprom_status, button_state, send_flag, IMU_data_ready_flag, IMU_over_threshold_flag,
                   log_id, int_reg, timestamp, page_i, eeprom, imu, MAIN_TIMER, n, g>>

\* IMU_ResetFIFO and the clearing of the flag.
MainDataReadyEnd ==
    /\ pc = "ready_end"
    /\ pc' = "thresh"
    /\ imu' = IMU_ResetFIFORegs(imu)
    /\ IMU_data_ready_flag' = 0
    /\ Quiet
    /\ UNCHANGED <<eeprom_status, button_state, send_flag, IMU_over_threshold_flag, IMU_DataBuffer,
                   IMU_log_queue, log_id, int_reg, timestamp, page_i, eeprom,
                   MAIN_TIMER, n, g, past>>

\* Over-threshold block, lines 175-181: the identifier, the interrupt
\* register reg and the timestamp at t ticks since boot.
MainThreshBegin(reg, t) ==
    /\ pc = "thresh"
    /\ IF IMU_over_threshold_flag = 1
       THEN /\ t >= MAIN_TIMER
            /\ MAIN_TIMER' = t
            /\ log_id' = EEPROM_retrieveLogCount(eeprom)
            /\ int_reg' = reg
            /\ timestamp' = LOG_getTimestamp(t)
            /\ g' = HistoryBegin(g, eeprom, log_id')
            /\ past' = [past EXCEPT !.late = @ \ {"thresh"}]
            /\ pc' = "spin"
       ELSE /\ pc' = "switch"
            /\ UNCHANGED <<MAIN_TIMER, log_id, int_reg, timestamp, g, past>>
    /\ Quiet
    /\ UNCHANGED <<eeprom_status, button_state, send_flag, IMU_data_ready_flag, IMU_over_threshold_flag,
                   IMU_DataBuffer, IMU_log_queue, page_i, eeprom, imu, n>>

\* A spin that reads the interrupt bit set for ever.
SpinForever == pc = "spin" /\ UNCHANGED vars

\* Line 184: INT1_SRC reads clear of the interrupt bit; the page loop starts.
MainSpinExit ==
    /\ pc = "spin"
    /\ pc' = "page"
    /\ page_i' = 0
    /\ Quiet
    /\ UNCHANGED <<eeprom_status, button_state, send_flag, IMU_data_ready_flag, IMU_over_threshold_flag,
                   IMU_DataBuffer, IMU_log_queue, log_id, int_reg, timestamp,
                   eeprom, imu, MAIN_TIMER, n, g, past>>

\* Lines 188-196: the record of page i of a log and its 64 bytes.
LogPage(id, reg, time, queue, i) ==
    LOG_unpackMessage(LOG_createMessage(id, reg, time, IMU_getPayload(queue, i)))

\* The 64 bytes of page page_i of the log being appended.
CurrentPage == LogPage(log_id, int_reg, timestamp, IMU_log_queue, page_i)

\* Lines 188-196 up to EEPROM_storeLogData inside EEPROM_storeLogMessage.
MainStorePage ==
    /\ pc = "page"
    /\ pc' = "count"
    /\ eeprom' = EEPROM_storeLogData(eeprom, CurrentPage)
    /\ g' = HistoryPage(g, eeprom, CurrentPage)
    /\ Quiet
    /\ UNCHANGED <<eeprom_status, ram, imu, MAIN_TIMER, n, past>>

\* EEPROM_incrementLogCounter inside EEPROM_storeLogMessage, and the loop's i++.
MainCountPage ==
    /\ pc = "count"
    /\ eeprom' = EEPROM_incrementLogCounter(eeprom)
    /\ page_i' = page_i + 1
    /\ pc' = IF page_i + 1 < LOG_PAGES_PER_EVENT THEN "page" ELSE "thresh_end"
    /\ Quiet
    /\ UNCHANGED <<eeprom_status, button_state, send_flag, IMU_data_ready_flag, IMU_over_threshold_flag,
                   IMU_DataBuffer, IMU_log_queue, log_id, int_reg, timestamp,
                   imu, MAIN_TIMER, n, g, past>>

\* Lines 199-203: IMU_ResetFIFO and the clearing of the flag.
MainThreshEnd ==
    /\ pc = "thresh_end"
    /\ pc' = "switch"
    /\ imu' = IMU_ResetFIFORegs(imu)
    /\ IMU_over_threshold_flag' = 0
    /\ Quiet
    /\ UNCHANGED <<eeprom_status, button_state, send_flag, IMU_data_ready_flag, IMU_DataBuffer,
                   IMU_log_queue, log_id, int_reg, timestamp, page_i, eeprom,
                   MAIN_TIMER, n, g, past>>

\* One run of the page loop's body, lines 188-196, on store st.m with
\* history st.g.
WithPage(st, id, reg, time, queue, i) ==
    [m |-> EEPROM_storeLogMessage(st.m, LOG_createMessage(id, reg, time,
                                                          IMU_getPayload(queue, i))),
     g |-> HistoryPage(st.g, st.m, LogPage(id, reg, time, queue, i))]

\* The page loop, lines 186-197, for the log id on store st.m.
WithLog(st, id, reg, time, queue) ==
    LET s0 == [m |-> st.m, g |-> HistoryBegin(st.g, st.m, id)]
        s1 == WithPage(s0, id, reg, time, queue, 0)
        s2 == WithPage(s1, id, reg, time, queue, 1)
        s3 == WithPage(s2, id, reg, time, queue, 2)
        s4 == WithPage(s3, id, reg, time, queue, 3)
    IN WithPage(s4, id, reg, time, queue, 4)

\* The over-threshold block, lines 172-204, run with no handler in between:
\* MainThreshBegin, MainSpinExit, five times MainStorePage and MainCountPage,
\* and MainThreshEnd.
MainThreshBlock(reg, t) ==
    /\ pc = "thresh"
    /\ IMU_over_threshold_flag = 1
    /\ t >= MAIN_TIMER
    /\ MAIN_TIMER' = t
    /\ log_id' = EEPROM_retrieveLogCount(eeprom)
    /\ int_reg' = reg
    /\ timestamp' = LOG_getTimestamp(t)
    /\ page_i' = LOG_PAGES_PER_EVENT
    /\ \E st \in {WithLog([m |-> eeprom, g |-> g], log_id', reg, timestamp',
                         IMU_log_queue)} :
          eeprom' = st.m /\ g' = st.g
    /\ imu' = IMU_ResetFIFORegs(imu)
    /\ IMU_over_threshold_flag' = 0
    /\ past' = [past EXCEPT !.late = @ \ {"thresh"}]
    /\ pc' = "switch"
    /\ Quiet
    /\ UNCHANGED <<eeprom_status, button_state, send_flag, IMU_data_ready_flag, IMU_DataBuffer,
                   IMU_log_queue, n>>

(***************************************************************************)
(* The system: main() interleaved with the handlers, every input free.     *)
(***************************************************************************)
RxOpCodes == {UART_RX_RESET_MEMORY, UART_RX_NUMBER_OF_LOGS, UART_RX_READ_CTRL_REG,
              UART_RX_SEND_LOG_ID}

\* The handlers, each kind of input taken at most its bound's number of times.
LongPress == n.buttons < MaxButtons /\ CUSTOM_ISR_CONFIG

DoubleClick == n.buttons < MaxButtons /\ CUSTOM_ISR_START

SensorInterrupt ==
    \E ovr \in BOOLEAN, ia \in BOOLEAN :
       /\ ovr => n.bursts < MaxBursts
       /\ ia => n.events < MaxEvents
       /\ CUSTOM_ISR_IMU(ovr, ia)

RemoteCommand ==
    \E op_code \in RxOpCodes :
       \E id \in (IF op_code = UART_RX_SEND_LOG_ID THEN QueryIds ELSE {0}) :
          /\ op_code = UART_RX_RESET_MEMORY => n.resets < MaxResets
          /\ CUSTOM_ISR_RX(op_code, id)

Next ==
    \/ LongPress
    \/ DoubleClick
    \/ SensorInterrupt
    \/ RemoteCommand
    \/ MainInitState
    \/ MainInit
    \/ \E pot_val \in KnobValues : MainSwitch(pot_val)
    \/ \E b \in 1..NumBurstKinds, overlap \in OverlapKinds : MainDataReady(b, overlap)
    \/ MainDataReadyEnd
    \/ \E reg \in IntRegs, t \in TimerReadings : MainThreshBegin(reg, t)
    \/ MainSpinExit
    \/ MainStorePage
    \/ MainCountPage
    \/ MainThreshEnd

Spec == Init /\ [][Next]_vars

(***************************************************************************)
(* A long recording session: one double click, then the sensor alone.      *)
(* The sensor raises an interrupt only while main() is at the top of its   *)
(* loop with both flags clear: FillBursts overruns first, then threshold   *)
(* events, FillEvents at most.  The timer advances FillTimerStep ticks     *)
(* from one log to the next.  The remote reads the count and the logs      *)
(* FillQueryIds at any moment; it never erases.  While main() appends one  *)
(* of the first PriorLogs logs no handler runs, and the over-threshold     *)
(* block is one step; the later logs are appended page by page.            *)
(***************************************************************************)
FillQueryIds == {0, 51}

SensorIdle ==
    pc = "switch" /\ IMU_data_ready_flag = 0 /\ IMU_over_threshold_flag = 0

FillStart == pc = "switch" /\ n.buttons = 0 /\ CUSTOM_ISR_START

FillOverrun == SensorIdle /\ n.bursts < FillBursts /\ CUSTOM_ISR_IMU(TRUE, FALSE)

FillThreshold ==
    SensorIdle /\ n.bursts = FillBursts /\ n.events < FillEvents /\ CUSTOM_ISR_IMU(FALSE, TRUE)

FillRead ==
    \/ CUSTOM_ISR_RX(UART_RX_NUMBER_OF_LOGS, 0)
    \/ CUSTOM_ISR_RX(UART_RX_READ_CTRL_REG, 0)
    \/ \E id \in FillQueryIds : CUSTOM_ISR_RX(UART_RX_SEND_LOG_ID, id)

FillLogBlock ==
    n.events <= PriorLogs /\ MainThreshBlock(FillIntReg, MAIN_TIMER + FillTimerStep)

FillThreshBegin ==
    /\ IMU_over_threshold_flag = 1 => n.events > PriorLogs
    /\ MainThreshBegin(FillIntReg, MAIN_TIMER + FillTimerStep)

NextFill ==
    \/ FillStart
    \/ FillOverrun
    \/ FillThreshold
    \/ FillRead
    \/ MainInitState
    \/ MainInit
    \/ MainSwitch(POT_MID_RANGE)
    \/ MainDataReady(1, "as_memmove")
    \/ MainDataReadyEnd
    \/ FillLogBlock
    \/ FillThreshBegin
    \/ MainSpinExit
    \/ MainStorePage
    \/ MainCountPage
    \/ MainThreshEnd

SpecFill == InitWith({255}) /\ [][NextFill]_vars

(***************************************************************************)
(* The mode controller: the buttons, the erase command, the read of the    *)
(* control byte and one loss of power, interleaved with main().  The       *)
(* sensor raises over-threshold interrupts only, and main() appends a log  *)
(* with no handler running in between.                                     *)
(***************************************************************************)
\* Power is lost and comes back: main() runs its setup again, lines 72-104.
\* The RAM and the sensor restart; the store keeps its bytes.
PowerCycle ==
    /\ pc' = "setup"
    /\ button_state' = STOP_MODE
    /\ send_flag' = 0
    /\ IMU_data_ready_flag' = 0
    /\ IMU_over_threshold_flag' = 0
    /\ IMU_DataBuffer' = AsBytes([k \in 1..LIS3DH_BYTES_IN_FIFO |-> 0])
    /\ IMU_log_queue' = AsBytes([k \in 1..LIS3DH_BYTES_IN_LOG_BUFFER |-> 0])
    /\ log_id' = 0 /\ int_reg' = 0 /\ timestamp' = 0 /\ page_i' = 0
    /\ imu' = IMU_InitRegs
    /\ MAIN_TIMER' = 0
    /\ Quiet
    /\ past' = [past EXCEPT !.cycles = @ + 1,
                            !.start_bit = EEPROM_retrieveStartStopState(eeprom),
                            !.press = "none", !.pushed = <<>>, !.late = {}]
    /\ UNCHANGED <<eeprom_status, eeprom, n, g>>

ModeLongPress == n.buttons < ModeButtons /\ CUSTOM_ISR_CONFIG

ModeDoubleClick == n.buttons < ModeButtons /\ CUSTOM_ISR_START

ModeThreshold == n.events < ModeEvents /\ CUSTOM_ISR_IMU(FALSE, TRUE)

ModeErase == n.resets < ModeResets /\ CUSTOM_ISR_RX(UART_RX_RESET_MEMORY, 0)

ModeReadCtrl == CUSTOM_ISR_RX(UART_RX_READ_CTRL_REG, 0)

ModePowerCycle == past.cycles < ModeCycles /\ PowerCycle

\* The over-threshold block of main(): skipped when the flag is clear, run
\* as one step when it is set.
ModeThreshSkip ==
    IMU_over_threshold_flag = 0 /\ MainThreshBegin(FillIntReg, MAIN_TIMER)

ModeLogBlock == MainThreshBlock(FillIntReg, MAIN_TIMER + FillTimerStep)

NextMode ==
    \/ ModeLongPress
    \/ ModeDoubleClick
    \/ ModeThreshold
    \/ ModeErase
    \/ ModeReadCtrl
    \/ ModePowerCycle
    \/ MainInitState
    \/ MainInit
    \/ \E pot_val \in KnobValues : MainSwitch(pot_val)
    \/ MainDataReady(1, "as_memmove")
    \/ ModeThreshSkip
    \/ ModeLogBlock

SpecMode == InitWith({255}) /\ [][NextMode]_vars

(***************************************************************************)
(* The four writers of the control byte, each called once on its own, on   *)
(* every value of the byte and with the flag set and clear.                *)
(***************************************************************************)
CtrlBytes == 0..255

FlagArgs == {0, 1}

InitCtrl ==
    /\ SetupDone
    /\ \E c \in CtrlBytes :
          eeprom = EEPROM_writeByte([p \in 0..(SPI_EEPROM_PAGE_COUNT - 1) |-> <<0>>],
                                    CTRL_REG_PSOC_STATUS, c)
    /\ n = [buttons |-> 0, bursts |-> 0, events |-> 0, resets |-> 0]
    /\ g = NoHistory
    /\ past = NoPast

\* One call of a writer: after is the store it leaves.
CtrlCall(fn, flag, after) ==
    /\ past.call = <<>>
    /\ eeprom' = after
    /\ past' = [past EXCEPT !.call = <<fn, flag, EEPROM_readByte(eeprom, CTRL_REG_PSOC_STATUS)>>]
    /\ Quiet
    /\ UNCHANGED <<eeprom_status, pc, ram, imu, MAIN_TIMER, n, g>>

CallSaveStartStopState ==
    \E flag \in FlagArgs :
       CtrlCall("EEPROM_saveStartStopState", flag, EEPROM_saveStartStopState(eeprom, flag))

CallSaveConfigFlag ==
    \E flag \in FlagArgs :
       CtrlCall("EEPROM_saveConfigFlag", flag, EEPROM_saveConfigFlag(eeprom, flag))

CallSaveSendFlag ==
    \E flag \in FlagArgs :
       CtrlCall("EEPROM_saveSendFlag", flag, EEPROM_saveSendFlag(eeprom, flag))

CallSaveResetFlag ==
    \E flag \in FlagArgs :
       CtrlCall("EEPROM_saveResetFlag", flag, EEPROM_saveResetFlag(eeprom, flag))

NextCtrl ==
    \/ CallSaveStartStopState
    \/ CallSaveConfigFlag
    \/ CallSaveSendFlag
    \/ CallSaveResetFlag

SpecCtrl == InitCtrl /\ [][NextCtrl]_vars

(***************************************************************************)
(* A flag writer preempted between its read and its write.  The writers    *)
(* run with interrupts enabled: the one called by main() (line 108) can be *)
(* interrupted by every handler, the one called by CUSTOM_ISR_START by     *)
(* CUSTOM_ISR_CONFIG.  past.call holds the name and the argument of the    *)
(* preempted writer and its local ctrl_reg, then the name and the argument *)
(* of the writer that preempted it, then "done".                           *)
(***************************************************************************)
PreemptBytes == 0..15

InitPreempt ==
    /\ SetupDone
    /\ \E c \in PreemptBytes :
          eeprom = EEPROM_writeByte([p \in 0..(SPI_EEPROM_PAGE_COUNT - 1) |-> <<0>>],
                                    CTRL_REG_PSOC_STATUS, c)
    /\ n = [buttons |-> 0, bursts |-> 0, events |-> 0, resets |-> 0]
    /\ g = NoHistory
    /\ past = NoPast

\* The mask of the flag the writer fn owns.
OwnMask(fn) ==
    CASE fn = "EEPROM_saveStartStopState" -> CTRL_REG_PSOC_SET_START
      [] fn = "EEPROM_saveConfigFlag" -> CTRL_REG_PSOC_SET_CONFIG
      [] fn = "EEPROM_saveSendFlag" -> CTRL_REG_PSOC_SET_SEND_FLAG

\* The writer fn reads the control byte into its local ctrl_reg.
PreemptedRead(fn, flag) ==
    /\ past.call = <<>>
    /\ past' = [past EXCEPT !.call = <<fn, flag, EEPROM_readByte(eeprom, CTRL_REG_PSOC_STATUS)>>]
    /\ Quiet
    /\ UNCHANGED <<pc, ram, eeprom, eeprom_status, imu, MAIN_TIMER, n, g>>

\* A handler of higher priority runs a writer of another flag to its end.
PreemptByFlag(fn, flag) ==
    /\ Len(past.call) = 3
    /\ fn # past.call[1]
    /\ eeprom' = SaveFlagBit(eeprom, OwnMask(fn), flag)
    /\ past' = [past EXCEPT !.call = @ \o <<fn, flag>>]
    /\ Quiet
    /\ UNCHANGED <<pc, ram, eeprom_status, imu, MAIN_TIMER, n, g>>

\* CUSTOM_ISR_RX runs the erase to its end.  Its priority 7 is below that of
\* the button handlers: it preempts none but main(), whose one flag write is
\* EEPROM_saveStartStopState(0) at start-up.
PreemptByErase ==
    /\ Len(past.call) = 3
    /\ past.call[2] = 0
    /\ eeprom' = EEPROM_resetMemory(eeprom)
    /\ past' = [past EXCEPT !.call = @ \o <<"EEPROM_resetMemory", 0>>]
    /\ Quiet
    /\ UNCHANGED <<pc, ram, eeprom_status, imu, MAIN_TIMER, n, g>>

\* The preempted writer goes on: it writes its local ctrl_reg back.
PreemptedWrite ==
    /\ Len(past.call) \in {3, 5}
    /\ eeprom' = FlagWriteBack(eeprom, OwnMask(past.call[1]), past.call[2], past.call[3])
    /\ past' = [past EXCEPT !.call = IF Len(@) = 3 THEN @ \o <<"none", 0, "done">>
                                     ELSE @ \o <<"done">>]
    /\ Quiet
    /\ UNCHANGED <<pc, ram, eeprom_status, imu, MAIN_TIMER, n, g>>

\* The writer preempted is EEPROM_saveStartStopState, called by main() at
\* start-up and by CUSTOM_ISR_START (priority 6) in STOP and in START mode;
\* the long press that preempts it (priority 5) finds the mode other than
\* CONFIG and runs EEPROM_saveConfigFlag(1).
NextPreempt ==
    \/ \E flag \in FlagArgs : PreemptedRead("EEPROM_saveStartStopState", flag)
    \/ PreemptByFlag("EEPROM_saveConfigFlag", 1)
    \/ PreemptByErase
    \/ PreemptedWrite

SpecPreempt == InitPreempt /\ [][NextPreempt]_vars

(***************************************************************************)
(* The history queue on its own: from the queue of zeroes at power-on,     *)
(* bursts are pushed by IMU_StoreFIFO one after the other, each with       *)
(* either outcome of the overlapping memcpy, and IMU_getPayload cuts the   *)
(* queue into the payloads of the five pages.                              *)
(***************************************************************************)
InitQueue ==
    /\ SetupDone
    /\ eeprom = EEPROM_resetMemory([p \in 0..(SPI_EEPROM_PAGE_COUNT - 1) |-> <<0>>])
    /\ n = [buttons |-> 0, bursts |-> 0, events |-> 0, resets |-> 0]
    /\ g = NoHistory
    /\ past = NoPast

\* IMU_ReadFIFO and IMU_StoreFIFO on burst b.
QueuePush(b, overlap) ==
    /\ Len(past.pushed) < QueuePushes
    /\ IMU_DataBuffer' = RawBurst(b)
    /\ IMU_log_queue' = IMU_StoreFIFO(IMU_log_queue, RawBurst(b), overlap)
    /\ past' = [past EXCEPT !.pushed = <<b>> \o @, !.call = <<>>]
    /\ Quiet
    /\ UNCHANGED <<eeprom_status, pc, button_state, send_flag, IMU_data_ready_flag,
                   IMU_over_threshold_flag, log_id, int_reg, timestamp, page_i,
                   eeprom, imu, MAIN_TIMER, n, g>>

\* IMU_getPayload for page index of a log.
QueueSlice(index) ==
    /\ past' = [past EXCEPT !.call = <<"IMU_getPayload", index,
                                       IMU_getPayload(IMU_log_queue, index)>>]
    /\ Quiet
    /\ UNCHANGED <<eeprom_status, pc, ram, eeprom, imu, MAIN_TIMER, n, g>>

NextQueue ==
    \/ \E b \in 1..QueueBursts, overlap \in OverlapKinds : QueuePush(b, overlap)
    \/ \E index \in 0..(LOG_PAGES_PER_EVENT - 1) : QueueSlice(index)

SpecQueue == InitQueue /\ [][NextQueue]_vars

(***************************************************************************)
(* The log record on its own: the timer is read and cut to a timestamp,    *)
(* a record is made of an identifier, an interrupt register, the timestamp *)
(* and a payload of the queue, serialised by LOG_unpackMessage as          *)
(* EEPROM_storeLogMessage does, and parsed back by LOG_packMessage as      *)
(* EEPROM_retrieveLogMessage does.                                         *)
(***************************************************************************)
\* Identifiers and interrupt registers of the records.
CodecIds == {0, 1, 255}
CodecRegs == {0, 106}
\* Ticks since boot at which the timer is read: up to and beyond 65535 s.
CodecTicks == {0, 255000, 256999, 4660000, 65535000, 65535999, 65536000, 131071000}

CodecPush ==
    /\ Len(past.pushed) < CodecPushes
    /\ \E b \in 1..QueueBursts, overlap \in OverlapKinds : QueuePush(b, overlap)

\* LOG_getTimestamp when the timer has counted t ticks.
CodecStamp(t) ==
    /\ t >= MAIN_TIMER
    /\ MAIN_TIMER' = t
    /\ timestamp' = LOG_getTimestamp(t)
    /\ past' = [past EXCEPT !.call = <<>>]
    /\ Quiet
    /\ UNCHANGED <<eeprom_status, pc, button_state, send_flag, IMU_data_ready_flag,
                   IMU_over_threshold_flag, IMU_DataBuffer, IMU_log_queue,
                   log_id, int_reg, page_i, eeprom, imu, n, g>>

\* LOG_createMessage and LOG_unpackMessage for page i of a log.
CodecUnpack(id, reg, i) ==
    /\ log_id' = id
    /\ int_reg' = reg
    /\ page_i' = i
    /\ past' = [past EXCEPT !.call = <<"LOG_unpackMessage",
                                       LogPage(id, reg, timestamp, IMU_log_queue, i)>>]
    /\ Quiet
    /\ UNCHANGED <<eeprom_status, pc, button_state, send_flag, IMU_data_ready_flag,
                   IMU_over_threshold_flag, IMU_DataBuffer, IMU_log_queue,
                   timestamp, eeprom, imu, MAIN_TIMER, n, g>>

\* LOG_packMessage on the bytes just serialised.
CodecPack ==
    /\ past.call # <<>>
    /\ past.call[1] = "LOG_unpackMessage"
    /\ past' = [past EXCEPT !.call = <<"LOG_packMessage", past.call[2],
                                       LOG_packMessage(past.call[2])>>]
    /\ Quiet
    /\ UNCHANGED <<eeprom_status, pc, ram, eeprom, imu, MAIN_TIMER, n, g>>

NextCodec ==
    \/ CodecPush
    \/ \E t \in CodecTicks : CodecStamp(t)
    \/ \E id \in CodecIds, reg \in CodecRegs, i \in 0..(LOG_PAGES_PER_EVENT - 1) :
          CodecUnpack(id, reg, i)
    \/ CodecPack

SpecCodec == InitQueue /\ [][NextCodec]_vars

(***************************************************************************)
(* The store writes of main() with their waits.  A write instruction sets  *)
(* the write-in-progress bit of the chip's status register; the chip       *)
(* clears it when its write cycle ends, which the firmware does not        *)
(* control; EEPROM_waitForWriteComplete reads the register until the bit   *)
(* is clear.  The handlers run between two steps of main(), also between   *)
(* two readings of the register.                                           *)
(***************************************************************************)
\* Line 108: EEPROM_saveStartStopState(0), up to the write instruction.
WriteInitIssue ==
    /\ pc = "init"
    /\ pc' = "init_wait"
    /\ eeprom' = EEPROM_saveStartStopState(eeprom, 0)
    /\ eeprom_status' = BitSet(eeprom_status, SPI_EEPROM_WRITE_IN_PROGRESS)
    /\ Quiet
    /\ UNCHANGED <<ram, imu, MAIN_TIMER, n, g, past>>

\* Lines 111-115: the send flag and the sensor's flags.
WriteInitFlags ==
    /\ pc = "init_flags"
    /\ pc' = "switch"
    /\ send_flag' = 0
    /\ IMU_data_ready_flag' = 0
    /\ IMU_over_threshold_flag' = 0
    /\ Quiet
    /\ UNCHANGED <<button_state, IMU_DataBuffer, IMU_log_queue, log_id, int_reg,
                   timestamp, page_i, eeprom, eeprom_status, imu, MAIN_TIMER, n, g, past>>

\* EEPROM_storeLogData up to the write instruction; no instruction and no
\* wait when the address is not valid.
WritePageIssue ==
    /\ pc = "page"
    /\ eeprom' = EEPROM_storeLogData(eeprom, CurrentPage)
    /\ g' = HistoryPage(g, eeprom, CurrentPage)
    /\ IF PageAddrValid(NextPageAddr(eeprom))
       THEN /\ pc' = "page_wait"
            /\ eeprom_status' = BitSet(eeprom_status, SPI_EEPROM_WRITE_IN_PROGRESS)
       ELSE /\ pc' = "count"
            /\ UNCHANGED eeprom_status
    /\ Quiet
    /\ UNCHANGED <<ram, imu, MAIN_TIMER, n, past>>

\* EEPROM_incrementLogCounter up to the write instruction; no instruction and
\* no wait when the counter is at its maximum.
WriteCountIssue ==
    /\ pc = "count"
    /\ eeprom' = EEPROM_incrementLogCounter(eeprom)
    /\ IF EEPROM_retrieveLogPages(eeprom) < SPI_EEPROM_PAGE_COUNT
       THEN /\ pc' = "count_wait"
            /\ eeprom_status' = BitSet(eeprom_status, SPI_EEPROM_WRITE_IN_PROGRESS)
       ELSE /\ pc' = "next_page"
            /\ UNCHANGED eeprom_status
    /\ Quiet
    /\ UNCHANGED <<ram, imu, MAIN_TIMER, n, g, past>>

\* The page loop's i++ and test.
WriteNextPage ==
    /\ pc = "next_page"
    /\ page_i' = page_i + 1
    /\ pc' = IF page_i + 1 < LOG_PAGES_PER_EVENT THEN "page" ELSE "thresh_end"
    /\ Quiet
    /\ UNCHANGED <<button_state, send_flag, IMU_data_ready_flag, IMU_over_threshold_flag,
                   IMU_DataBuffer, IMU_log_queue, log_id, int_reg, timestamp,
                   eeprom, eeprom_status, imu, MAIN_TIMER, n, g, past>>

\* Where main() is inside EEPROM_waitForWriteComplete, and where it goes on
\* when the function returns.
WaitPcs == {"init_wait", "page_wait", "count_wait"}
AfterWait(at) ==
    IF at = "init_wait" THEN "init_flags"
    ELSE IF at = "page_wait" THEN "count" ELSE "next_page"

\* A wait that gives up: it returns after one reading of the register
\* whatever the reading.
WaitOnce ==
    /\ pc \in WaitPcs
    /\ pc' = AfterWait(pc)
    /\ Quiet
    /\ UNCHANGED <<ram, eeprom, eeprom_status, imu, MAIN_TIMER, n, g, past>>

\* One reading of the status register by the loop of the function.
EEPROM_waitForWriteComplete ==
    /\ pc \in WaitPcs
    /\ pc' = IF BitAnd(eeprom_status, SPI_EEPROM_WRITE_IN_PROGRESS) # 0
             THEN pc ELSE AfterWait(pc)
    /\ Quiet
    /\ UNCHANGED <<ram, eeprom, eeprom_status, imu, MAIN_TIMER, n, g, past>>

\* The chip ends its write cycle.
ChipWriteCycleEnd ==
    /\ BitAnd(eeprom_status, SPI_EEPROM_WRITE_IN_PROGRESS) # 0
    /\ eeprom_status' = BitClear(eeprom_status, SPI_EEPROM_WRITE_IN_PROGRESS)
    /\ UNCHANGED <<pc, ram, eeprom, imu, MAIN_TIMER, uart_rx, uart_tx, n, g, past>>

WriteStart == pc = "switch" /\ n.buttons = 0 /\ CUSTOM_ISR_START

WriteThreshold == n.events < WriteEvents /\ CUSTOM_ISR_IMU(FALSE, TRUE)

\* A FIFO overrun.  The FIFO, read empty by IMU_ReadFIFO, stays empty until
\* IMU_ResetFIFO restarts it.
WriteOverrun ==
    n.bursts < WriteBursts /\ pc \notin BurstDrainPcs /\ CUSTOM_ISR_IMU(TRUE, FALSE)

NextWrite ==
    \/ MainInitState
    \/ WriteInitIssue
    \/ WriteInitFlags
    \/ WriteStart
    \/ WriteThreshold
    \/ WriteOverrun
    \/ MainSwitch(127)
    \/ MainDataReady(1, "as_memmove")
    \/ MainDataReadyEnd
    \/ MainThreshBegin(FillIntReg, MAIN_TIMER + FillTimerStep)
    \/ MainSpinExit
    \/ WritePageIssue
    \/ WriteCountIssue
    \/ WriteNextPage
    \/ MainThreshEnd
    \/ EEPROM_waitForWriteComplete
    \/ ChipWriteCycleEnd

SpecWrite == InitWith({255}) /\ [][NextWrite]_vars

\* A step of main(): the loop for(;;) of lines 121-205 never blocks but in the
\* spin of line 184 and in the waits for the store.
MainStep ==
    \/ MainInitState \/ WriteInitIssue \/ WriteInitFlags
    \/ MainSwitch(127) \/ MainDataReady(1, "as_memmove") \/ MainDataReadyEnd
    \/ MainThreshBegin(FillIntReg, MAIN_TIMER + FillTimerStep) \/ MainSpinExit
    \/ WritePageIssue \/ WriteCountIssue \/ WriteNextPage \/ MainThreshEnd
    \/ EEPROM_waitForWriteComplete

\* main() keeps running between the handlers; the chip ends every write cycle
\* it began; the sensor's interrupt condition clears, so that the reading of
\* line 184 that ends the spin (MainSpinExit, a step of main()) is made.
SpecWriteFair == SpecWrite /\ WF_vars(MainStep) /\ WF_vars(ChipWriteCycleEnd)

(***************************************************************************)
(* The page counter on its own: EEPROM_incrementLogCounter called over and *)
(* over on an erased store.  The values the store goes through repeat, so  *)
(* the calls need no bound.                                                *)
(***************************************************************************)
\* One call; the value it stored, if it stored one, is kept in past.call.
CountIncrement ==
    /\ eeprom' = EEPROM_incrementLogCounter(eeprom)
    /\ past' = [past EXCEPT !.call =
                  IF EEPROM_retrieveLogPages(eeprom) < SPI_EEPROM_PAGE_COUNT
                  THEN <<"EEPROM_incrementLogCounter", EEPROM_retrieveLogPages(eeprom) + 1>>
                  ELSE <<>>]
    /\ Quiet
    /\ UNCHANGED <<pc, ram, eeprom_status, imu, MAIN_TIMER, n, g>>

NextCount == CountIncrement

SpecCount == InitWith(ChipFills) /\ [][NextCount]_vars

(***************************************************************************)
(* EEPROM_storeLogData and EEPROM_incrementLogCounter on a chip as it is     *)
(* found at power-on: erased by EEPROM_resetMemory, or never erased and      *)
(* filled with 0xFF as the 25LC256 is delivered.                             *)
(***************************************************************************)
AppendPages == 260
AppendByte == 3

InitAppend ==
    /\ SetupDone
    /\ \/ eeprom = EEPROM_resetMemory([p \in 0..(SPI_EEPROM_PAGE_COUNT - 1) |-> <<0>>])
       \/ eeprom = [p \in 0..(SPI_EEPROM_PAGE_COUNT - 1) |-> <<255>>]
    /\ n = [buttons |-> 0, bursts |-> 0, events |-> 0, resets |-> 0]
    /\ g = NoHistory
    /\ past = NoPast

\* The 64 bytes handed to EEPROM_storeLogData.
AppendData == AsBytes([k \in 1..SPI_EEPROM_PAGE_SIZE |-> AppendByte])

\* Lines 194-195 of main: the page is stored and the counter incremented.
AppendPage ==
    /\ n.events < AppendPages
    /\ n' = [n EXCEPT !.events = @ + 1]
    /\ eeprom' = EEPROM_incrementLogCounter(EEPROM_storeLogData(eeprom, AppendData))
    /\ past' = [past EXCEPT !.call = <<"EEPROM_storeLogData", NextPageAddr(eeprom)>>]
    /\ Quiet
    /\ UNCHANGED <<pc, ram, eeprom_status, imu, MAIN_TIMER, g>>

NextAppend == AppendPage

SpecAppend == InitAppend /\ [][NextAppend]_vars

(***************************************************************************)
(* POT_Read_Value on its own: every clipped knob reading with either value   *)
(* of the previous flag.                                                     *)
(***************************************************************************)
KnobMax == 255

\* Line 146 of main: send_flag = POT_Read_Value(send_flag), the previous flag
\* being oldFlag and the clipped reading pot_val.
KnobRead(oldFlag, pot_val) ==
    /\ send_flag' = POT_Read_Value(oldFlag, pot_val)
    /\ past' = [past EXCEPT !.call = <<"POT_Read_Value", oldFlag, pot_val>>]
    /\ Quiet
    /\ UNCHANGED <<pc, button_state, IMU_data_ready_flag, IMU_over_threshold_flag,
                   IMU_DataBuffer, IMU_log_queue, log_id, int_reg, timestamp, page_i,
                   eeprom, eeprom_status, imu, MAIN_TIMER, n, g>>

NextKnob == \E oldFlag \in FlagArgs, pot_val \in 0..KnobMax : KnobRead(oldFlag, pot_val)

SpecKnob == InitQueue /\ [][NextKnob]_vars

(***************************************************************************)
(* Properties of the log store.                                            *)
(***************************************************************************)
\* The log main() began last.
LastLog == g.logs[Len(g.logs)]

\* Whole logs the pages behind the control page can hold.
StoreCapacity == (SPI_EEPROM_PAGE_COUNT - 1) \div LOG_PAGES_PER_EVENT

\* The logs of the history that main() has finished appending.
NumAppended == IF Appending THEN Len(g.logs) - 1 ELSE Len(g.logs)

\* Log k of the history was appended whole: no erase cut it and five pages
\* were written for it.
WholeLog(k) ==
    ~g.logs[k].cut /\ Len(g.logs[k].addrs) = LOG_PAGES_PER_EVENT

\* C1: starting from an erased store, once n over-threshold events have been
\* appended by the main loop with no erase in between, n up to the capacity of
\* 102 logs, EEPROM_retrieveLogCount returns n and EEPROM_findLogID returns an
\* address other than 0xFFFF for each of the n identifiers used.
C1_CountAndLookup ==
    (n.resets = 0 /\ ~Appending /\ Len(g.logs) <= StoreCapacity) =>
       /\ EEPROM_retrieveLogCount(eeprom) = Len(g.logs)
       /\ \A k \in 1..Len(g.logs) :
             EEPROM_findLogID(eeprom, g.logs[k].id) # LOG_NOT_FOUND

\* C2: the log-data region is append-only: of the pages written since the last
\* erase, each is written at an address strictly greater than the one before,
\* so no write targets an address already written.
C2_AppendOnly ==
    \A k \in 1..(Len(g.addrs) - 1) : g.addrs[k] < g.addrs[k + 1]

\* C3: an over-threshold event drained while space remains writes exactly five
\* pages at five consecutive page addresses from base + pageCount*64, all with
\* the identifier, interrupt register and timestamp taken before the first
\* page, and raises the persisted page counter by exactly five.
C3_FivePagesPerEvent ==
    (pc = "thresh_end" /\ ~LastLog.cut
       /\ LastLog.start + LOG_PAGES_PER_EVENT <= SPI_EEPROM_PAGE_COUNT - 1) =>
       /\ LastLog.addrs =
             [i \in 1..LOG_PAGES_PER_EVENT |->
                LOG_DATA_BASE_ADDR + (LastLog.start + i - 1) * SPI_EEPROM_PAGE_SIZE]
       /\ \A i \in 1..Len(LastLog.data) :
             SubSeq(LastLog.data[i], 1, LOG_MESSAGE_HEADER_BYTE)
                = <<LastLog.id, int_reg, timestamp % 256, timestamp \div 256>>
       /\ EEPROM_retrieveLogPages(eeprom) = LastLog.start + LOG_PAGES_PER_EVENT

\* C4: EEPROM_findLogID(id) returns the lowest scanned page address whose first
\* byte equals id, and for a log appended with identifier id that address is
\* the address of the log's first page.
C4_LookupFindsFirstPage ==
    \A k \in 1..NumAppended :
       WholeLog(k) =>
          LET found == EEPROM_findLogID(eeprom, g.logs[k].id) IN
          /\ found # LOG_NOT_FOUND
          /\ EEPROM_readByte(eeprom, found) = g.logs[k].id
          /\ \A b \in ScanAddrs : b < found => EEPROM_readByte(eeprom, b) # g.logs[k].id
          /\ found = g.logs[k].addrs[1]

\* C5: for every identifier in 0..255 that no log appended since the last erase
\* carries, EEPROM_findLogID returns 0xFFFF; it never reports a page at or
\* beyond base + pageCount*64.
C5_AbsentIdNotFound ==
    \A id \in 0..255 :
       LET found == EEPROM_findLogID(eeprom, id) IN
       /\ (\A k \in 1..Len(g.logs) : g.logs[k].id # id) => found = LOG_NOT_FOUND
       /\ found # LOG_NOT_FOUND =>
             found < LOG_DATA_BASE_ADDR
                       + EEPROM_retrieveLogPages(eeprom) * SPI_EEPROM_PAGE_SIZE

\* C6: when READ_LOG names an identifier for which EEPROM_findLogID returns
\* 0xFFFF, the handler transmits no bytes in reply.
C6_NotFoundSendsNothing ==
    (Len(uart_rx) = 2 /\ uart_rx[1] = UART_RX_SEND_LOG_ID
       /\ EEPROM_findLogID(eeprom, uart_rx[2]) = LOG_NOT_FOUND) =>
       uart_tx = <<>>

\* C7: for an identifier whose log has been appended whole and not erased
\* since, the reply to READ_LOG(id) is the five pages written for that log, 64
\* bytes each, earliest page first.
C7_ReplyIsTheLog ==
    (Len(uart_rx) = 2 /\ uart_rx[1] = UART_RX_SEND_LOG_ID) =>
       \A k \in 1..NumAppended :
          (WholeLog(k) /\ g.logs[k].id = uart_rx[2]) =>
             uart_tx = g.logs[k].data[1] \o g.logs[k].data[2] \o g.logs[k].data[3]
                         \o g.logs[k].data[4] \o g.logs[k].data[5]

\* C8: when the RESET command has completed, EEPROM_retrieveLogCount returns 0,
\* every page from the base page up to the last page of the store reads as
\* zero bytes, and the reset marker reads 1.
C8_EraseClearsStore ==
    uart_rx = <<UART_RX_RESET_MEMORY>> =>
       /\ EEPROM_retrieveLogCount(eeprom) = 0
       /\ \A a \in ScanAddrs : \A k \in 0..(SPI_EEPROM_PAGE_SIZE - 1) :
             EEPROM_readByte(eeprom, a + k) = 0
       /\ EEPROM_retrieveResetFlag(eeprom) = 1

\* C9: whenever the main loop is not in the middle of appending a log, whatever
\* handlers and commands ran in between, the persisted page counter is a
\* multiple of 5.
C9_CounterMultipleOfFive ==
    ~Appending => EEPROM_retrieveLogPages(eeprom) % LOG_PAGES_PER_EVENT = 0

\* C10: an append never leaves a partial or damaged log: a log begun when fewer
\* than five pages were free has no page written, and every other log appended
\* since the last erase has its five pages in the store as they were written.
C10_NoPartialLog ==
    \A k \in 1..NumAppended :
       ~g.logs[k].cut =>
          IF g.logs[k].start + LOG_PAGES_PER_EVENT > SPI_EEPROM_PAGE_COUNT - 1
          THEN g.logs[k].addrs = <<>>
          ELSE /\ Len(g.logs[k].addrs) = LOG_PAGES_PER_EVENT
               /\ \A i \in 1..LOG_PAGES_PER_EVENT :
                     EEPROM_readPage(eeprom, g.logs[k].addrs[i], SPI_EEPROM_PAGE_SIZE)
                        = g.logs[k].data[i]

(***************************************************************************)
(* Properties of the handlers and the mode controller.                     *)
(***************************************************************************)
\* main() is inside EEPROM_storeLogMessage: the page is stored, the counter
\* is not yet incremented.
MainInStoreOp == pc = "count"

\* The step is a handler that reads or writes the store: the long press
\* always, the double click unless the mode is CONFIG_MODE, every remote
\* command.
HandlerUsesStore ==
    \/ CUSTOM_ISR_CONFIG
    \/ button_state # CONFIG_MODE /\ CUSTOM_ISR_START
    \/ \E op_code \in RxOpCodes, id \in QueryIds : CUSTOM_ISR_RX(op_code, id)

\* C11: no interrupt handler reads or writes the store while main() is
\* between the start and the end of one of its own store operations.
C11_HandlersKeepOffStore == [][~(MainInStoreOp /\ HandlerUsesStore)]_vars

\* C12: when a long press leaves CONFIG_MODE, the mode becomes the one that
\* was active when CONFIG_MODE was entered, the persisted config bit becomes
\* 0, and the sensor acquires exactly when that mode is START_MODE.
C12_ConfigExitResumes ==
    [][(button_state = CONFIG_MODE /\ CUSTOM_ISR_CONFIG) =>
          /\ button_state' = past.config_from
          /\ EEPROM_retrieveConfigFlag(eeprom') = 0
          /\ IMU_Acquiring(imu') <=> past.config_from = START_MODE]_vars

\* C13: a double click in STOP_MODE leaves START_MODE with the sensor
\* acquiring and the persisted start/stop bit 1; a double click in START_MODE
\* leaves STOP_MODE with the sensor stopped and the bit 0.
C13_DoubleClickToggles ==
    [][CUSTOM_ISR_START =>
          /\ button_state = STOP_MODE =>
                /\ button_state' = START_MODE
                /\ IMU_Acquiring(imu')
                /\ EEPROM_retrieveStartStopState(eeprom') = 1
          /\ button_state = START_MODE =>
                /\ button_state' = STOP_MODE
                /\ ~IMU_Acquiring(imu')
                /\ EEPROM_retrieveStartStopState(eeprom') = 0]_vars

\* A second button event, a double click taken in START_MODE, has left
\* STOP_MODE, the sensor stopped and the bit 0.
C13_Witness ==
    /\ past.press = "double" /\ past.from = START_MODE /\ n.buttons = 2
    /\ button_state = STOP_MODE
    /\ ~IMU_Acquiring(imu)
    /\ EEPROM_retrieveStartStopState(eeprom) = 0

\* C14: a long press in STOP_MODE or START_MODE leaves CONFIG_MODE with the
\* sensor stopped and the persisted config bit 1, and leaves the persisted
\* start/stop bit as it was.
C14_LongPressEntersConfig ==
    [][(button_state # CONFIG_MODE /\ CUSTOM_ISR_CONFIG) =>
          /\ button_state' = CONFIG_MODE
          /\ ~IMU_Acquiring(imu')
          /\ EEPROM_retrieveConfigFlag(eeprom') = 1
          /\ EEPROM_retrieveStartStopState(eeprom') = EEPROM_retrieveStartStopState(eeprom)]_vars

\* The changes of mode the controller allows.
LegalModeChanges ==
    {<<STOP_MODE, START_MODE>>, <<START_MODE, STOP_MODE>>,
     <<STOP_MODE, CONFIG_MODE>>, <<START_MODE, CONFIG_MODE>>,
     <<CONFIG_MODE, STOP_MODE>>, <<CONFIG_MODE, START_MODE>>}

\* C15: a double click in CONFIG_MODE changes neither the mode, nor the
\* sensor's registers, nor any bit of the control byte; and every change of
\* mode is one of STOP to START, START to STOP, STOP or START to CONFIG,
\* CONFIG to STOP or START.
C15_DoubleClickInConfigNoOp ==
    [][/\ (button_state = CONFIG_MODE /\ CUSTOM_ISR_START) =>
             /\ button_state' = CONFIG_MODE
             /\ imu' = imu
             /\ EEPROM_readByte(eeprom', CTRL_REG_PSOC_STATUS)
                  = EEPROM_readByte(eeprom, CTRL_REG_PSOC_STATUS)
       /\ button_state' # button_state =>
             <<button_state, button_state'>> \in LegalModeChanges]_vars

\* A double click was taken in CONFIG_MODE and the mode is still CONFIG_MODE.
C15_Witness ==
    /\ past.press = "double" /\ past.from = CONFIG_MODE /\ n.buttons >= 2
    /\ button_state = CONFIG_MODE
    /\ EEPROM_retrieveConfigFlag(eeprom) = 1

\* C16: after a power cycle, the mode start-up leaves is START_MODE exactly
\* when the persisted start/stop bit was 1 when power came back, STOP_MODE
\* otherwise, and never CONFIG_MODE.
C16_PowerCycleResumes ==
    [][(past.cycles > 0 /\ MainInit) =>
          /\ button_state' = (IF past.start_bit = 1 THEN START_MODE ELSE STOP_MODE)
          /\ button_state' # CONFIG_MODE]_vars

\* C17: when the start-up initialisation of main() has completed, the mode is
\* STOP_MODE and the persisted start/stop bit is 0.
C17_ColdBootStop ==
    [][MainInit =>
          /\ button_state' = STOP_MODE
          /\ EEPROM_retrieveStartStopState(eeprom') = 0]_vars

\* C18: whenever no handler is running, the sensor acquires exactly when the
\* mode is START_MODE; in STOP_MODE and in CONFIG_MODE it is stopped.
C18_AcquiringIffStart == IMU_Acquiring(imu) <=> button_state = START_MODE

\* Bit k of the byte x.
Bit(x, k) == (x \div (2 ^ k)) % 2

\* The bit of the control byte the writer fn owns.
OwnBit(fn) ==
    CASE fn = "EEPROM_saveStartStopState" -> 0
      [] fn = "EEPROM_saveConfigFlag" -> 1
      [] fn = "EEPROM_saveSendFlag" -> 2
      [] fn = "EEPROM_saveResetFlag" -> 3

\* C19: EEPROM_saveStartStopState, EEPROM_saveConfigFlag and
\* EEPROM_saveSendFlag, run to completion, give their own bit (0, 1 or 2) the
\* value of the flag, leave the reset marker (bit 3) clear, and keep every
\* other bit of the control byte, bits 4..7 included; EEPROM_saveResetFlag
\* gives bit 3 the value of the flag and keeps every other bit.
C19_FlagWritersMergeBits ==
    past.call # <<>> =>
       LET own == OwnBit(past.call[1])
           flag == past.call[2]
           before == past.call[3]
           after == EEPROM_readByte(eeprom, CTRL_REG_PSOC_STATUS)
       IN \A k \in 0..7 :
             Bit(after, k) = IF k = own THEN flag
                             ELSE IF k = 3 THEN (IF own = 3 THEN Bit(before, 3) ELSE 0)
                             ELSE Bit(before, k)

\* EEPROM_saveSendFlag(1) has run on the byte 0xF8 (bits 4..7 and the reset
\* marker set) and has left 0xF4.
C19_Witness ==
    /\ past.call = <<"EEPROM_saveSendFlag", 1, 248>>
    /\ EEPROM_readByte(eeprom, CTRL_REG_PSOC_STATUS) = 244

\* The step writes the start/stop, the config or the send flag: the long
\* press, the double click unless the mode is CONFIG_MODE, and the end of the
\* start-up of main().
FlagWriteStep ==
    \/ CUSTOM_ISR_CONFIG
    \/ button_state # CONFIG_MODE /\ CUSTOM_ISR_START
    \/ MainInit

\* C20: the erase sets the reset marker; the marker then stays 1 through
\* every step that writes none of the three flags (log appends, remote reads,
\* a loss of power), and reads 0 once a step that writes one has completed.
C20_ResetMarkerLifetime ==
    [][/\ CUSTOM_ISR_RX(UART_RX_RESET_MEMORY, 0) => EEPROM_retrieveResetFlag(eeprom') = 1
       /\ (EEPROM_retrieveResetFlag(eeprom) = 1 /\ ~FlagWriteStep) =>
             EEPROM_retrieveResetFlag(eeprom') = 1
       /\ FlagWriteStep => EEPROM_retrieveResetFlag(eeprom') = 0]_vars

\* After the erase command a whole log was appended and the control byte was
\* read, and the marker is still 1.
C20_Witness ==
    /\ n.resets = 1
    /\ Len(g.logs) = 1 /\ Len(g.logs[1].addrs) = LOG_PAGES_PER_EVENT
    /\ uart_rx = <<UART_RX_READ_CTRL_REG>>
    /\ EEPROM_retrieveResetFlag(eeprom) = 1

(***************************************************************************)
(* Properties of the history queue, the log record and the timestamp.      *)
(***************************************************************************)
\* Slot j (1 is the newest) of the history queue.
Slot(queue, j) ==
    SubSeq(queue, (j - 1) * LIS3DH_BYTES_IN_FIFO_DOWNSAMPLED + 1,
           j * LIS3DH_BYTES_IN_FIFO_DOWNSAMPLED)

\* The reduced burst of burst number b.
ReducedBurst(b) == AsBytes(DownSampledData(RawBurst(b)))

\* C21: after m pushes the history queue holds the latest bursts newest
\* first: slot j holds the j-th newest burst, for j up to m and at most
\* LIS3DH_FIFO_STORED.
C21_QueueNewestFirst ==
    \A j \in 1..LIS3DH_FIFO_STORED :
       j <= Len(past.pushed) => Slot(IMU_log_queue, j) = ReducedBurst(past.pushed[j])

\* C22: the reduction is a decimation of the raw burst: once a burst has been
\* pushed, the newest slot holds 16 levels (half of the 32 raw ones) and, for
\* each i in 0..15 and axis c in 0..2, its byte 3*i+c is the high byte of
\* axis c of raw level 2*i, whatever the queue held before.
C22_ReductionIsDecimation ==
    past.pushed # <<>> =>
       /\ Len(Slot(IMU_log_queue, 1)) = 3 * (LIS3DH_LEVELS_IN_FIFO \div LIS3DH_DOWN_SAMPLE)
       /\ \A i \in 0..15 : \A c \in 0..2 :
             IMU_log_queue[3 * i + c + 1] = IMU_DataBuffer[6 * (2 * i) + 2 * c + 1 + 1]

C22_Witness ==
    /\ Len(past.pushed) >= 2
    /\ past.pushed[1] # past.pushed[2]
    /\ Slot(IMU_log_queue, 1) # Slot(IMU_log_queue, 2)

\* The 12 bytes of padding of the last page of a log.
PayloadPadding == [k \in 1..(LOG_MESSAGE_DATA_BYTE - LIS3DH_BYTES_IN_FIFO_DOWNSAMPLED) |-> 0]

\* C23: IMU_getPayload with page index 0, 1, 2, 3 returns the bytes of the
\* queue at offsets 228..287, 168..227, 108..167, 48..107, and with page
\* index 4 the first 48 bytes of the queue followed by 12 zero bytes.
C23_PayloadSlices ==
    past.call # <<>> =>
       LET index == past.call[2]
           payload == past.call[3]
       IN  /\ index = 0 => payload = SubSeq(IMU_log_queue, 229, 288)
           /\ index = 1 => payload = SubSeq(IMU_log_queue, 169, 228)
           /\ index = 2 => payload = SubSeq(IMU_log_queue, 109, 168)
           /\ index = 3 => payload = SubSeq(IMU_log_queue, 49, 108)
           /\ index = 4 => payload = SubSeq(IMU_log_queue, 1, 48) \o PayloadPadding

C23_Witness ==
    /\ Len(past.pushed) >= LIS3DH_FIFO_STORED
    /\ past.call # <<>>
    /\ past.call[2] = 4
    /\ past.call[3][1] # 0
    /\ past.call[3][LOG_MESSAGE_DATA_BYTE] = 0

\* The record of page page_i of the log made of the current identifier,
\* interrupt register, timestamp and queue.
CurrentRecord ==
    LOG_createMessage(log_id, int_reg, timestamp, IMU_getPayload(IMU_log_queue, page_i))

\* C24: LOG_packMessage applied to the 64 bytes produced by LOG_unpackMessage
\* from a record yields a record equal to it in all four fields.
C24_PackUnpackRoundTrip ==
    (past.call # <<>> /\ past.call[1] = "LOG_packMessage") =>
       /\ past.call[3].logID = CurrentRecord.logID
       /\ past.call[3].intReg = CurrentRecord.intReg
       /\ past.call[3].timestamp = CurrentRecord.timestamp
       /\ past.call[3].data = CurrentRecord.data

C24_Witness ==
    /\ past.call # <<>>
    /\ past.call[1] = "LOG_packMessage"
    /\ past.call[3].timestamp = 4660
    /\ past.call[3].logID = 255
    /\ past.call[3].data[1] # 0

\* C25: LOG_unpackMessage serialises a record into 64 bytes: byte 0 the
\* identifier, byte 1 the interrupt register, byte 2 the timestamp mod 256,
\* byte 3 the timestamp div 256, bytes 4..63 the 60 payload bytes unmodified.
C25_RecordLayout ==
    (past.call # <<>> /\ past.call[1] = "LOG_unpackMessage") =>
       LET bytes == past.call[2] IN
       /\ Len(bytes) = 64
       /\ bytes[1] = log_id
       /\ bytes[2] = int_reg
       /\ bytes[3] = timestamp % 256
       /\ bytes[4] = timestamp \div 256
       /\ \A k \in 1..60 : bytes[4 + k] = IMU_getPayload(IMU_log_queue, page_i)[k]

C25_Witness ==
    /\ past.call # <<>>
    /\ past.call[1] = "LOG_unpackMessage"
    /\ timestamp = 4660
    /\ past.call[2][3] = 52
    /\ past.call[2][4] = 18
    /\ past.call[2][5] # 0

\* C26: the timestamp saturates: it is the whole seconds elapsed since boot
\* while that is at most 65535, and 65535 once more seconds have elapsed.
C26_TimestampSaturates ==
    timestamp = IF MAIN_TIMER \div LOG_TICK_PER_SECOND <= 65535
                THEN MAIN_TIMER \div LOG_TICK_PER_SECOND ELSE 65535

\* The commands that read the store.
ReadOpCodes == {UART_RX_NUMBER_OF_LOGS, UART_RX_READ_CTRL_REG, UART_RX_SEND_LOG_ID}

\* C27: lookup and retrieval are read-only and repeatable: a LOG_COUNT,
\* READ_CONTROL or READ_LOG command leaves every byte of the store unchanged,
\* and what it sent is what the same command sends on the store it left, the
\* lookup of the identifier included.
C27_ReadsAreReadOnly ==
    [][\A op_code \in ReadOpCodes : \A id \in FillQueryIds :
          CUSTOM_ISR_RX(op_code, id) =>
             /\ \A p \in 0..(SPI_EEPROM_PAGE_COUNT - 1) : eeprom'[p] = eeprom[p]
             /\ uart_tx' = RxReply(eeprom', op_code, id)
             /\ EEPROM_findLogID(eeprom', id) = EEPROM_findLogID(eeprom, id)]_vars

C27_Witness ==
    /\ uart_rx = <<UART_RX_SEND_LOG_ID, 0>>
    /\ Len(uart_tx) = LOG_PAGES_PER_EVENT * LOG_MESSAGE_TOT_BYTE
    /\ EEPROM_retrieveLogPages(eeprom) >= LOG_PAGES_PER_EVENT
    /\ uart_tx = SendLogReply(eeprom, 0)
    /\ uart_tx[1] = 0
    /\ uart_tx[2] = FillIntReg

(***************************************************************************)
(* Properties of the waits, the data path and the page counter.            *)
(***************************************************************************)
\* A step of main() that sends a write instruction to the store.
MainWrites == WriteInitIssue \/ WritePageIssue \/ WriteCountIssue

\* C28: every store write of main() blocks until the write-in-progress bit
\* reads clear: a write instruction is followed by the wait, and while the bit
\* is set no step takes main() out of the wait.
C28_WriteBlocksWhileBusy ==
    [][/\ (MainWrites /\ eeprom' # eeprom) => pc' \in WaitPcs
       /\ (pc \in WaitPcs /\ BitAnd(eeprom_status, SPI_EEPROM_WRITE_IN_PROGRESS) # 0)
             => pc' = pc]_vars

C28_Witness ==
    /\ pc = "page_wait"
    /\ page_i = 2
    /\ BitAnd(eeprom_status, SPI_EEPROM_WRITE_IN_PROGRESS) # 0
    /\ IMU_over_threshold_flag = 1
    /\ n.events = WriteEvents

\* A step of main() that pushes a burst into the history queue.
MainPushes == Len(past'.pushed) > Len(past.pushed)

\* A step of main() that appends a page, or the five pages, of a log.
MainAppends == MainStorePage \/ ModeLogBlock

\* C29: the mode gates the data path: main() pushes a burst into the history
\* queue and appends a log to the store only while the mode is START_MODE.
C29_ModeGatesDataPath ==
    [][(MainPushes \/ MainAppends) => button_state = START_MODE]_vars

\* C30: the persisted page counter round-trips: after
\* EEPROM_incrementLogCounter has stored the value c, EEPROM_retrieveLogPages
\* returns c.
C30_CounterRoundTrip ==
    past.call # <<>> => EEPROM_retrieveLogPages(eeprom) = past.call[2]

(***************************************************************************)
(* Properties of the identifiers, the control byte and the flags.          *)
(***************************************************************************)
\* C31: starting from an erased store, the k-th log appended (k = 0, 1, ...)
\* carries identifier k, for every number of logs up to the capacity of 102,
\* so two logs appended between two erases carry distinct identifiers.
C31_IdentifierIsOrdinal ==
    n.resets = 0 =>
       \A k \in 1..Len(g.logs) :
          k <= StoreCapacity =>
             /\ g.logs[k].id = k - 1
             /\ \A j \in 1..(k - 1) : g.logs[j].id # g.logs[k].id

\* main() has finished its initialisation.
Initialised == pc \notin {"setup", "init"}

\* C32: the control byte mirrors the controller: once main() is initialised,
\* bit 1 is 1 exactly when the mode is CONFIG_MODE and, when the mode is
\* STOP_MODE or START_MODE, bit 0 is 1 exactly when the mode is START_MODE.
C32_ControlByteMirrorsMode ==
    Initialised =>
       /\ EEPROM_retrieveConfigFlag(eeprom) = 1 <=> button_state = CONFIG_MODE
       /\ button_state # CONFIG_MODE =>
             (EEPROM_retrieveStartStopState(eeprom) = 1 <=> button_state = START_MODE)

\* C33: control-byte updates are not lost under preemption: when a flag
\* writer is preempted between its read and its write by a writer of another
\* flag or by the erase, then after both have completed the control byte
\* holds the flag of the preempted writer in its bit and the flag of the
\* other writer in its bit, or, after the erase, no other flag.
C33_NoLostUpdate ==
    (Len(past.call) = 6 /\ past.call[4] # "none") =>
       LET after == EEPROM_readByte(eeprom, CTRL_REG_PSOC_STATUS)
           own == OwnBit(past.call[1])
       IN  /\ Bit(after, own) = past.call[2]
           /\ IF past.call[4] = "EEPROM_resetMemory"
              THEN \A k \in 0..2 : k # own => Bit(after, k) = 0
              ELSE Bit(after, OwnBit(past.call[4])) = past.call[5]

\* C34: the set-and-drain handshake loses no event: the burst-ready and the
\* threshold flag are set only by the sensor handler and cleared only by
\* main(), and an event signalled while main() is draining an event of the
\* same kind stays signalled until main() begins to drain it.
C34_NoEventLost ==
    /\ [][/\ (IMU_data_ready_flag' > IMU_data_ready_flag
                \/ IMU_over_threshold_flag' > IMU_over_threshold_flag)
                => \E ovr \in BOOLEAN, ia \in BOOLEAN : CUSTOM_ISR_IMU(ovr, ia)
          /\ (IMU_data_ready_flag' < IMU_data_ready_flag
                \/ IMU_over_threshold_flag' < IMU_over_threshold_flag) => MainStep]_vars
    /\ []("burst" \in past.late => IMU_data_ready_flag = 1)
    /\ []("thresh" \in past.late => IMU_over_threshold_flag = 1)

SendBit(m) == Bit(EEPROM_readByte(m, CTRL_REG_PSOC_STATUS), 2)

\* C36: the persisted verbose-send bit changes only when the long-press
\* handler leaves CONFIG, to the value send_flag has at that moment, and when
\* the store is erased.
C36_SendBitFrame ==
    [][SendBit(eeprom') # SendBit(eeprom)
         => \/ /\ CUSTOM_ISR_CONFIG
               /\ button_state = CONFIG_MODE
               /\ SendBit(eeprom') = send_flag
            \/ PreemptByErase
            \/ CUSTOM_ISR_RX(UART_RX_RESET_MEMORY, 0)]_vars

\* The payload IMU_getPayload makes of the current queue for page index.
QueuePayload(index) == IMU_getPayload(IMU_log_queue, index)

\* C37: the five payloads of a log partition the history queue: the first 48
\* bytes of page 4 followed by pages 3, 2, 1 and 0 are the 288 bytes of the
\* queue, and the last 12 bytes of page 4 are zero.
C37_PayloadsPartitionQueue ==
    /\ SubSeq(QueuePayload(4), 1, LIS3DH_BYTES_IN_FIFO_DOWNSAMPLED)
          \o QueuePayload(3) \o QueuePayload(2) \o QueuePayload(1) \o QueuePayload(0)
       = IMU_log_queue
    /\ SubSeq(QueuePayload(4), LIS3DH_BYTES_IN_FIFO_DOWNSAMPLED + 1, LOG_MESSAGE_DATA_BYTE)
       = PayloadPadding

\* The queue holds six bursts, no byte of it zero at either end or across the
\* boundary of pages 4 and 3, and the payload of page 0 has been taken.
C37_Witness ==
    /\ Len(past.pushed) >= LIS3DH_FIFO_STORED
    /\ IMU_log_queue[1] # 0
    /\ IMU_log_queue[LIS3DH_BYTES_IN_FIFO_DOWNSAMPLED] # IMU_log_queue[LIS3DH_BYTES_IN_FIFO_DOWNSAMPLED + 1]
    /\ IMU_log_queue[LIS3DH_BYTES_IN_LOG_BUFFER] # 0
    /\ past.call # <<>>
    /\ past.call[2] = 0
    /\ past.call[3] = SubSeq(IMU_log_queue, LIS3DH_BYTES_IN_LOG_BUFFER - LOG_MESSAGE_DATA_BYTE + 1,
                             LIS3DH_BYTES_IN_LOG_BUFFER)

\* C38: every page a log append writes starts at a multiple of 64 in
\* 0x0040..0x7FBF and ends inside the store, and EEPROM_storeLogData leaves
\* page 0, with the control byte and the page counter, as it was.
C38_AppendKeepsControlPage ==
    [][AppendPage =>
          /\ PageAddrValid(NextPageAddr(eeprom)) =>
                /\ NextPageAddr(eeprom) % SPI_EEPROM_PAGE_SIZE = 0
                /\ NextPageAddr(eeprom) >= LOG_DATA_BASE_ADDR
                /\ NextPageAddr(eeprom) + SPI_EEPROM_PAGE_SIZE - 1 <= SPI_EEPROM_SIZE_BYTE
          /\ EEPROM_readPage(EEPROM_storeLogData(eeprom, AppendData), 0, SPI_EEPROM_PAGE_SIZE)
               = EEPROM_readPage(eeprom, 0, SPI_EEPROM_PAGE_SIZE)]_vars

\* The knob reading as a whole percentage of its range 0..255.
KnobPercent(pot_val) == (pot_val * 100) \div 255

\* C39: POT_Read_Value returns 0 for a knob reading in 0%..24% of the range,
\* the previous flag for a reading in 25%..50% and 1 for a reading in
\* 51%..100%, for every reading 0..255 and both values of the previous flag.
C39_KnobFollowsDocumentation ==
    past.call # <<>> =>
       send_flag = IF KnobPercent(past.call[3]) <= 24 THEN 0
                   ELSE IF KnobPercent(past.call[3]) <= 50 THEN past.call[2]
                   ELSE 1

====
